---------------------------- MODULE Spec2Model ----------------------------
(***************************************************************************)
(* musbconv: the conversion run (entry.rs, convert.rs), the picture cache  *)
(* (concurrent_map.rs, pics.rs) and the output path sanitizer.             *)
(*                                                                         *)
(* Spec     the whole run: preflight, one task per item on a bounded      *)
(*          thread pool, the picture cache at lock granularity, and the   *)
(*          collision loop of main.                                       *)
(* SpecSched the run with overwrite disabled and an empty output         *)
(*          directory, in every interleaving of the tasks.                *)
(* SpecCache, SpecCacheLive                                                *)
(*          set_if_not_exists called by a bounded number of workers on    *)
(*          any mix of keys, without and with fair scheduling.            *)
(* SpecSan  sanitize_filename applied to every bounded rendered filename.  *)
(* SpecFallback, SpecPad                                                   *)
(*          the tags of conv_item: fill_fallback_tags, the track number   *)
(*          padding and the -metadata arguments, over bounded tag sets.   *)
(* SpecOverlay, SpecTagKeys                                                *)
(*          fill_tags on bounded container tags with every sheet          *)
(*          override, and on container keys that share a name.            *)
(* SpecCue, SpecFiles                                                       *)
(*          find_files on one source file with every bounded CUE sheet,   *)
(*          and on every bounded directory listing.                       *)
(* SpecCueInfo                                                              *)
(*          the items of one source file with every bounded CUE sheet,    *)
(*          as find_cue_info gives them, before the sort.                 *)
(* SpecCueTime                                                              *)
(*          find_files on one source file with a sheet of two tracks at   *)
(*          every bounded frame count.                                    *)
(* SpecArgs the command line of the transcoder that conv_item builds, for   *)
(*          every mode, with and without a sheet and passthrough options.  *)
(* SpecPicQuality                                                           *)
(*          ffmpeg_conv_pic_args for every value of the pic-quality       *)
(*          option and both formats.                                      *)
(***************************************************************************)
EXTENDS Integers, Sequences, FiniteSets, TLC

(* ------------------------------ bounds -------------------------------- *)
NumItems == 2
NumThreads == 2
MaxSegs == 3
NumCallers == 3
MaxTrackLen == 2
MaxMinDigits == 3
MaxTracks == 3
MaxFrames == 2
MaxEntries == 2
MaxFrameCount == 150
MaxTagKeys == 3
MaxOpts == 2

(* ------------------------------ domains ------------------------------- *)
Items == 1..NumItems
Formats == {"MP3", "Ogg"}
Keys == {"k1", "k2"}
NoCover == "none"
Absent == "absent"
Locked == "locked"
NoValue == "novalue"
PicNone == "None"
PicEmpty == "Some(empty)"
PicBytes == {"Some(img)"}
Segs == {"a", "b", ".", "..", ""}
RenderedNames == {<<"a">>, <<"..", "a">>, <<"b">>, <<"..", "..", "a">>}
NoPath == <<"?">>

VARIABLES
    args,            \* AppArgs: dry_run, overwrite, use_embed_pic, output_ext_type
    env,             \* what preflight finds: template_ok, progs_ok, dirs_ok
    phase,           \* position of main
    pc,              \* position of each item's conv_item task
    meta,            \* conv_item local: has_pic of the probe result
    output_path,     \* conv_item local: output_dir joined with the sanitized filename
    pic_file,        \* conv_item local: the cover image found by find_cover_in_dir
    output_pic_data, \* conv_item local: what conv_pic_if_needed returned
    files,           \* output paths that exist on disk
    map,             \* the ConcurrentMap: key -> Absent | Locked | value
    map_readers,     \* tasks holding the read lock of the outer RwLock
    map_writer,      \* the tasks (at most one) holding the write lock of the outer RwLock
    filenames,       \* the ItemResult of each item
    errs,            \* main's error list
    valid_filenames, \* main's list of converted paths
    exit,            \* what main returns
    probes,          \* per item: prober subprocesses run
    ffmpegs,         \* per item: transcoder subprocesses run
    pic_procs,       \* picture conversion subprocesses run
    made_dir,        \* per item: create_dir_all was called
    outcomes,        \* per item: results produced by conv_item
    consulted,       \* per item: set_if_not_exists was called
    blocked,         \* per item: overwrite was off and the output existed at the check
    computes,        \* per key: calls of the compute function conv_pic
    returned,        \* per key: the values set_if_not_exists has returned
    hits,            \* per key: set_if_not_exists calls that returned without computing
    san_in,          \* SpecSan: the rendered filename
    san_out,         \* SpecSan: output_dir joined with the sanitized filename
    meta_tags,       \* conv_item: meta.tags, the MetaTags of extract_meta
    tags,            \* conv_item local: the filename-facing MetaTags
    min_track_number_digits, \* AppArgs
    audio_args,      \* conv_item local: the -metadata arguments, name and value
    hash,            \* fill_tags: the tags of the container, raw key -> JSON value
    item_cue,        \* fill_tags: the CueInfo of the item, if any
    entries,         \* find_files: what read_dir yields for the input directory
    items,           \* find_files: the Vec<Item> it returns
    pic_quality,     \* AppArgs
    conv_args,       \* ffmpeg_conv_pic_args: the options it returns
    ffmpeg_opts,     \* AppArgs: the options passed through to the transcoder
    ffmpeg_args      \* conv_item: the arguments of the transcoder command

vars == <<args, env, phase, pc, meta, output_path, pic_file, output_pic_data,
          files, map, map_readers, map_writer, filenames, errs,
          valid_filenames, exit, probes, ffmpegs, pic_procs, made_dir,
          outcomes, consulted, blocked, computes, returned, hits, san_in,
          san_out, meta_tags, tags, min_track_number_digits, audio_args,
          hash, item_cue, entries, items, pic_quality, conv_args,
          ffmpeg_opts, ffmpeg_args>>

probeVars == <<hash, item_cue>>
tagVars == <<meta_tags, tags, min_track_number_digits, audio_args, probeVars>>
fileVars == <<entries, items>>
cmdVars == <<ffmpeg_opts, ffmpeg_args>>
picVars == <<pic_quality, conv_args, cmdVars>>
pureVars == <<tagVars, fileVars, picVars>>
configVars == <<args, env, san_in, san_out, pureVars>>
mainVars == <<phase, errs, valid_filenames, exit>>
localVars == <<meta, output_path, pic_file, output_pic_data>>
lockVars == <<map_readers, map_writer>>
cacheGhosts == <<computes, returned, hits>>
itemGhosts == <<probes, ffmpegs, made_dir, blocked>>

(* ------------------------- sanitize_filename -------------------------- *)
\* std::path::Path::components after the root: empty segments (repeated
\* separators) and "." segments are dropped.
Components(segs) == SelectSeq(segs, LAMBDA s : s # "" /\ s # ".")

\* A lexical clean-up that is not pinned under a root: a ".." with nothing
\* to remove is kept.
RECURSIVE clean_unpinned(_, _)
clean_unpinned(tokens, comps) ==
    IF comps = <<>> THEN tokens
    ELSE IF Head(comps) = ".."
         THEN clean_unpinned(IF Len(tokens) > 0 /\ tokens[Len(tokens)] # ".."
                             THEN SubSeq(tokens, 1, Len(tokens) - 1)
                             ELSE Append(tokens, ".."), Tail(comps))
         ELSE clean_unpinned(Append(tokens, Head(comps)), Tail(comps))

sanitize_filename_unpinned(filename) ==
    clean_unpinned(<<>>, Components(filename))

\* path_dedot on an absolute path: ".." removes the last token unless only
\* the root is left.
RECURSIVE parse_dot(_, _)
parse_dot(tokens, comps) ==
    IF comps = <<>> THEN tokens
    ELSE IF Head(comps) = ".."
         THEN parse_dot(IF Len(tokens) > 0 /\ (Len(tokens) # 1 \/ tokens[1] # "/")
                        THEN SubSeq(tokens, 1, Len(tokens) - 1)
                        ELSE tokens, Tail(comps))
         ELSE parse_dot(Append(tokens, Head(comps)), Tail(comps))

\* "/..///" + filename, parse_dot, strip_prefix("/")
sanitize_filename(filename) ==
    Tail(parse_dot(<<"/">>, <<"..">> \o Components(filename)))

\* Path::new(output_dir).join(output_filename): an absolute right-hand side
\* replaces the left-hand side.
join(dir, rel) ==
    IF rel # <<>> /\ rel[1] = "/" THEN rel ELSE dir \o rel

OutputDir == <<"/", "out">>

(* ------------------------------ results ------------------------------- *)
Pending == [t |-> "Pending"]
Filename(p) == [t |-> "Filename", path |-> p]
Error(kind, what) == [t |-> "Error", kind |-> kind, what |-> what]

IsFilename(r) == r.t = "Filename"
IsError(r) == r.t = "Error"

Active == {i \in Items : pc[i] \notin {"idle", "done"}}

(* ------------------------------ MetaTags ------------------------------ *)
\* A tag value is a string, written as the sequence of its characters. The
\* tags kept are the ones the fallback chain, the padding and the track
\* metadata read or write.
Digits == {"0", "1", "2", "3", "4", "5", "6", "7", "8", "9"}

\* MetaTags::default()
\* No tags in the container, no sheet.
ProbeAtRest ==
    /\ hash = <<>>
    /\ item_cue = <<>>

EmptyTags ==
    [title |-> <<>>, album |-> <<>>, artist |-> <<>>, author |-> <<>>,
     composer |-> <<>>, lyricist |-> <<>>, songwriter |-> <<>>,
     date |-> <<>>, track |-> <<>>, tracks |-> <<>>, performer |-> <<>>,
     year |-> <<>>, dir_name |-> <<>>, file_base |-> <<>>,
     genre |-> <<>>, disc_id |-> <<>>, disc |-> <<>>, publisher |-> <<>>]

\* Regex ^\d{4} on the date: the match, <<>> when there is none.
rx_year(date) ==
    IF Len(date) >= 4 /\ \A j \in 1..4 : date[j] \in Digits
    THEN SubSeq(date, 1, 4) ELSE <<>>

\* fill_fallback_tags, statement by statement
fb_date(t) ==
    IF t.year = <<>> /\ t.date # <<>>
    THEN IF rx_year(t.date) # <<>>
         THEN [t EXCEPT !.year = rx_year(t.date)] ELSE t
    ELSE IF t.year # <<>> /\ t.date = <<>>
         THEN [t EXCEPT !.date = t.year] ELSE t

fb_title(t) == IF t.title = <<>> THEN [t EXCEPT !.title = t.file_base] ELSE t

\* A mutated statement that sets the album whatever it holds.
fb_album_always(t) == [t EXCEPT !.album = t.dir_name]

fb_album(t) == IF t.album = <<>> THEN [t EXCEPT !.album = t.dir_name] ELSE t

fb_artist(t) ==
    IF t.artist = <<>>
    THEN IF t.author # <<>> THEN [t EXCEPT !.artist = t.author]
         ELSE IF t.performer # <<>> THEN [t EXCEPT !.artist = t.performer]
         ELSE t
    ELSE t

fb_author(t) ==
    IF t.author = <<>> /\ t.artist # <<>>
    THEN [t EXCEPT !.author = t.artist] ELSE t

\* A mutated statement that looks at the lyricist before the composer.
fb_songwriter_lyricist_first(t) ==
    IF t.songwriter = <<>>
    THEN IF t.lyricist # <<>> THEN [t EXCEPT !.songwriter = t.lyricist]
         ELSE IF t.composer # <<>> THEN [t EXCEPT !.songwriter = t.composer]
         ELSE IF t.artist # <<>> THEN [t EXCEPT !.songwriter = t.artist]
         ELSE t
    ELSE t

fb_songwriter(t) ==
    IF t.songwriter = <<>>
    THEN IF t.composer # <<>> THEN [t EXCEPT !.songwriter = t.composer]
         ELSE IF t.lyricist # <<>> THEN [t EXCEPT !.songwriter = t.lyricist]
         ELSE IF t.artist # <<>> THEN [t EXCEPT !.songwriter = t.artist]
         ELSE t
    ELSE t

fb_composer(t) ==
    IF t.composer = <<>> /\ t.songwriter # <<>>
    THEN [t EXCEPT !.composer = t.songwriter] ELSE t

fb_lyricist(t) ==
    IF t.lyricist = <<>> /\ t.songwriter # <<>>
    THEN [t EXCEPT !.lyricist = t.songwriter] ELSE t

\* A mutated chain that fills the author before the artist.
fill_fallback_tags_author_first(t) ==
    fb_lyricist(fb_composer(fb_songwriter(
      fb_artist(fb_author(fb_album(fb_title(fb_date(t))))))))

\* fill_fallback_tags: the statements in the order of the code
fill_fallback_tags(t) ==
    fb_lyricist(fb_composer(fb_songwriter(
      fb_author(fb_artist(fb_album(fb_title(fb_date(t))))))))

\* str::len(): the length in bytes of the UTF-8 encoding
RECURSIVE ByteLen(_)
ByteLen(str) ==
    IF str = <<>> THEN 0
    ELSE (IF Head(str) = "é" THEN 2 ELSE 1) + ByteLen(Tail(str))

\* format!("{:0>width$}", str): zeros on the left up to width characters
pad_zeros(str, width) ==
    IF Len(str) >= width THEN str
    ELSE [j \in 1..(width - Len(str)) |-> "0"] \o str

\* A mutated width that forgets the length of tracks.
tracks_digits_count_min_only(tracks, min_digits) == min_digits

\* conv_item: max(tags.tracks.len(), app_args.min_track_number_digits)
tracks_digits_count(tracks, min_digits) ==
    IF ByteLen(tracks) >= min_digits THEN ByteLen(tracks) ELSE min_digits

\* conv_item: tracks is padded to the minimum width, then track to the
\* width of the padded tracks
pad_tracks(t, min_digits) ==
    IF t.tracks # <<>>
    THEN [t EXCEPT !.tracks = pad_zeros(t.tracks, min_digits)] ELSE t

pad_track(t, min_digits) ==
    IF t.track # <<>>
    THEN [t EXCEPT !.track =
            pad_zeros(t.track, tracks_digits_count(t.tracks, min_digits))]
    ELSE t

\* add_meta: "-metadata", "name=val" unless val is empty
add_meta(audio, val, name) ==
    IF val # <<>> THEN Append(audio, [name |-> name, val |-> val]) ELSE audio

\* conv_item: the value of the track metadata
track_meta(t) ==
    IF t.track # <<>> /\ t.tracks # <<>>
    THEN t.track \o <<"/">> \o t.tracks ELSE t.track

\* A mutated source of the metadata: the padded filename-facing tags.
metadata_source_padded(m, t) == t

\* conv_item: the add_meta calls read meta.tags, not the local tags
metadata_source(m, t) == m

\* conv_item: the add_meta calls, in the order of the code
metadata_args(t) ==
    add_meta(add_meta(add_meta(add_meta(add_meta(add_meta(add_meta(add_meta(
      add_meta(add_meta(add_meta(<<>>, t.album, "album"),
      t.composer, "composer"), t.genre, "genre"), t.title, "title"),
      t.artist, "artist"), t.performer, "performer"), t.disc, "disc"),
      t.publisher, "publisher"), t.date, "date"), t.year, "year"),
      track_meta(t), "track")

TagsAtRest ==
    /\ ProbeAtRest
    /\ meta_tags = EmptyTags
    /\ tags = EmptyTags
    /\ min_track_number_digits = 2
    /\ audio_args = <<>>

(* ------------------------------ fill_tags ----------------------------- *)
\* The characters of the keys and values, in the order of their codes.
Alphabet ==
    <<" ", "-", "/", "0", "1", "2", "3", "4", "5", "6", "7", "8", "9",
    "A", "B", "C", "D", "E", "F", "G", "H", "I", "J", "K", "L", "M", "N",
    "O", "P", "Q", "R", "S", "T", "U", "V", "W", "X", "Y", "Z", "_", "a",
    "b", "c", "d", "e", "f", "g", "h", "i", "j", "k", "l", "m", "n", "o",
    "p", "q", "r", "s", "t", "u", "v", "w", "x", "y", "z">>

CharCode(c) == CHOOSE i \in 1..Len(Alphabet) : Alphabet[i] = c

IsUpper(c) == CharCode(c) >= CharCode("A") /\ CharCode(c) <= CharCode("Z")

IsLowerAlpha(c) == CharCode(c) >= CharCode("a") /\ CharCode(c) <= CharCode("z")

\* str::to_lowercase on a key
key_to_lowercase(str) ==
    [j \in 1..Len(str) |->
       IF IsUpper(str[j])
       THEN Alphabet[CharCode(str[j]) + (CharCode("a") - CharCode("A"))]
       ELSE str[j]]

\* RX_ALPHA.replace_all(&tag_key, ""): everything but a-z is removed
strip_non_alpha(str) == SelectSeq(str, IsLowerAlpha)

\* The name a raw key of the container is stored under
normalized(raw_key) == strip_non_alpha(key_to_lowercase(raw_key))

\* String::cmp gives Less
RECURSIVE str_less(_, _)
str_less(a, b) ==
    IF b = <<>> THEN FALSE
    ELSE IF a = <<>> THEN TRUE
    ELSE IF Head(a) # Head(b) THEN CharCode(Head(a)) < CharCode(Head(b))
    ELSE str_less(Tail(a), Tail(b))

\* The comparison of keys.sort_by: the lower-cased keys, then the keys
key_less(a, b) ==
    LET lower_a == key_to_lowercase(a)
        lower_b == key_to_lowercase(b)
    IN IF lower_a # lower_b THEN str_less(lower_a, lower_b)
       ELSE str_less(a, b)

\* keys.sort_by, a stable sort, by insertion
RECURSIVE sorted_insert(_, _)
sorted_insert(sorted, raw_key) ==
    IF sorted = <<>> THEN <<raw_key>>
    ELSE IF key_less(raw_key, Head(sorted)) THEN <<raw_key>> \o sorted
    ELSE <<Head(sorted)>> \o sorted_insert(Tail(sorted), raw_key)

RECURSIVE sort_by(_)
sort_by(raw_keys) ==
    IF raw_keys = <<>> THEN <<>>
    ELSE sorted_insert(sort_by(SubSeq(raw_keys, 1, Len(raw_keys) - 1)),
                       raw_keys[Len(raw_keys)])

\* A mutated insert that keeps the value a name already has.
tags_insert_keep(m, name, value) ==
    IF \E e \in m : e[1] = name THEN m ELSE m \cup {<<name, value>>}

\* HashMap::insert: the value replaces the one the name had
tags_insert(m, name, value) ==
    {e \in m : e[1] # name} \cup {<<name, value>>}

\* fill_tags: the loop over the sorted keys; only a JSON string is taken
RECURSIVE insert_all(_, _, _)
insert_all(raw_keys, h, m) ==
    IF raw_keys = <<>> THEN m
    ELSE insert_all(Tail(raw_keys), h,
                    IF h[Head(raw_keys)].is_string
                    THEN tags_insert(m, normalized(Head(raw_keys)),
                                     h[Head(raw_keys)].val)
                    ELSE m)

\* first_val: the value of the first of the names that the map has, the
\* empty string when it has none
RECURSIVE first_val(_, _)
first_val(m, names) ==
    IF names = <<>> THEN <<>>
    ELSE IF \E e \in m : e[1] = Head(names)
         THEN (CHOOSE e \in m : e[1] = Head(names))[2]
         ELSE first_val(m, Tail(names))

\* fill_tags: the MetaTags read from the map; the directory and the base
\* name come from the path of the source file
container_tags(m) ==
    [     title |-> first_val(m,
        <<<<"t", "i", "t", "l", "e">>>>),
     album |-> first_val(m,
        <<<<"a", "l", "b", "u", "m">>>>),
     artist |-> first_val(m,
        <<<<"a", "l", "b", "u", "m", "a", "r", "t", "i", "s", "t">>, <<"a", "r", "t", "i", "s", "t">>, <<"a", "r", "t", "i", "s", "t", "s">>>>),
     author |-> first_val(m,
        <<<<"a", "u", "t", "h", "o", "r">>>>),
     composer |-> first_val(m,
        <<<<"c", "o", "m", "p", "o", "s", "e", "r">>>>),
     lyricist |-> first_val(m,
        <<<<"l", "y", "r", "i", "c", "i", "s", "t">>>>),
     songwriter |-> first_val(m,
        <<<<"s", "o", "n", "g", "w", "r", "i", "t", "e", "r">>>>),
     date |-> first_val(m,
        <<<<"d", "a", "t", "e">>, <<"o", "r", "i", "g", "i", "n", "a", "l", "d", "a", "t", "e">>, <<"o", "r", "i", "g", "i", "n", "a", "l", "r", "e", "l", "e", "a", "s", "e", "d", "a", "t", "e">>>>),
     disc_id |-> first_val(m,
        <<<<"d", "i", "s", "c", "i", "d">>>>),
     track |-> first_val(m,
        <<<<"t", "r", "a", "c", "k">>>>),
     tracks |-> first_val(m,
        <<<<"t", "r", "a", "c", "k", "t", "o", "t", "a", "l">>, <<"t", "o", "t", "a", "l", "t", "r", "a", "c", "k", "s">>>>),
     genre |-> first_val(m,
        <<<<"g", "e", "n", "r", "e">>>>),
     performer |-> first_val(m,
        <<<<"p", "e", "r", "f", "o", "r", "m", "e", "r">>>>),
     year |-> first_val(m,
        <<<<"y", "e", "a", "r">>>>),
     disc |-> first_val(m,
        <<<<"d", "i", "s", "c">>>>),
     publisher |-> first_val(m,
        <<<<"p", "u", "b", "l", "i", "s", "h", "e", "r">>>>),
     dir_name |-> <<"d">>, file_base |-> <<"f">>]

\* A mutated overlay that fills only the fields the container left empty.
overlay_if_empty(t, c) ==
    LET take(field, value) == IF t[field] = <<>> THEN value ELSE t[field]
    IN [t EXCEPT !.album = take("album", c.album),
                 !.title = take("title", c.title),
                 !.songwriter = take("songwriter", c.songwriter),
                 !.genre = take("genre", c.genre),
                 !.performer = take("performer", c.performer),
                 !.artist = take("artist", c.performer),
                 !.date = take("date", c.date),
                 !.disc_id = take("disc_id", c.disc_id),
                 !.track = take("track", c.track),
                 !.tracks = take("tracks", c.tracks)]

\* fill_tags: if let Some(cue) = cue, every field of the sheet that is not
\* empty replaces the field of the container; the performer also replaces
\* the artist
overlay(t, c) ==
    LET take(field, value) == IF value # <<>> THEN value ELSE t[field]
    IN [t EXCEPT !.album = take("album", c.album),
                 !.title = take("title", c.title),
                 !.songwriter = take("songwriter", c.songwriter),
                 !.genre = take("genre", c.genre),
                 !.performer = take("performer", c.performer),
                 !.artist = take("artist", c.performer),
                 !.date = take("date", c.date),
                 !.disc_id = take("disc_id", c.disc_id),
                 !.track = take("track", c.track),
                 !.tracks = take("tracks", c.tracks)]

\* RX_TRACK ^(\d+)/(\d+)$: the two groups, <<>> when there is no match
rx_track(str) ==
    LET slashes == {j \in 1..Len(str) : str[j] = "/"}
    IN IF /\ Cardinality(slashes) = 1
          /\ \A j \in 1..Len(str) : j \in slashes \/ str[j] \in Digits
          /\ 1 \notin slashes /\ Len(str) \notin slashes
       THEN LET j == CHOOSE j \in slashes : TRUE
            IN <<SubSeq(str, 1, j - 1), SubSeq(str, j + 1, Len(str))>>
       ELSE <<>>

\* fill_tags: a track of the form n/m becomes n, and m is the tracks if
\* there is none
split_track(t) ==
    IF rx_track(t.track) = <<>> THEN t
    ELSE [t EXCEPT !.track = rx_track(t.track)[1],
                   !.tracks = IF t.tracks = <<>>
                              THEN rx_track(t.track)[2] ELSE t.tracks]

\* fill_tags, for the keys of the container in the order raw_keys that
\* hash.keys() yields them
fill_tags(raw_keys, h, c) ==
    LET filled == container_tags(insert_all(sort_by(raw_keys), h, {}))
    IN split_track(IF c = <<>> THEN filled ELSE overlay(filled, c[1]))

(* ------------------------------ cue.rs -------------------------------- *)
\* An Option is a sequence of no or one element. A Track of the parsed
\* sheet has its id and the begin time, in frames, of its index 01 if it
\* has one. A time in seconds, an f64, is the fraction num/den in lowest
\* terms that the division gives; it is held exactly by the f64 when den
\* is 1 and is the nearest f64 otherwise.
Tracks == [id : 1..MaxTracks, index1 : {<<>>} \cup {<<f>> : f \in 0..MaxFrames}]

\* cue.first_file().tracks of every bounded sheet
CueSheets == UNION {[1..n -> Tracks] : n \in 0..MaxTracks}

CUE_FRAMES_IN_SECOND == 75

RECURSIVE gcd(_, _)
gcd(a, b) == IF b = 0 THEN a ELSE gcd(b, a % b)

\* f64::from(a) / f64::from(b) for a u32 and a u8, both held exactly
f64_div(a, b) == [num |-> a \div gcd(a, b), den |-> b \div gcd(a, b)]

\* A mutated conversion that divides the integers.
cue_seconds_truncated(frames) ==
    [num |-> frames \div CUE_FRAMES_IN_SECOND, den |-> 1]

\* cue_track_info: f64::from(frames) / f64::from(CUE_FRAMES_IN_SECOND)
cue_seconds(frames) == f64_div(frames, CUE_FRAMES_IN_SECOND)

\* A mutated tracks field that counts the tracks.
max_track_index_count(tracks) == Len(tracks)

\* max_track_index
RECURSIVE max_track_index(_)
max_track_index(tracks) ==
    IF tracks = <<>> THEN 0
    ELSE IF Head(tracks).id > max_track_index(Tail(tracks))
         THEN Head(tracks).id ELSE max_track_index(Tail(tracks))

\* track_by_index: the first track with the id
RECURSIVE track_by_index(_, _)
track_by_index(tracks, id) ==
    IF tracks = <<>> THEN <<>>
    ELSE IF Head(tracks).id = id THEN <<Head(tracks)>>
         ELSE track_by_index(Tail(tracks), id)

\* track_start: the begin time of index 01
track_start(track) == track.index1

\* A mutated duration that is there also when the next track starts at the
\* same time.
cue_duration_not_strict(start, next_track) ==
    IF next_track # <<>> /\ track_start(next_track[1]) # <<>>
       /\ track_start(next_track[1])[1] >= start
    THEN <<track_start(next_track[1])[1] - start>> ELSE <<>>

\* A mutated duration that is the start of the next track.
cue_duration_next_start(start, next_track) ==
    IF next_track # <<>> /\ track_start(next_track[1]) # <<>>
       /\ track_start(next_track[1])[1] > start
    THEN <<track_start(next_track[1])[1]>> ELSE <<>>

\* cue_track_info: the duration in frames, there only with a next track
\* that starts strictly later
cue_duration(start, next_track) ==
    IF next_track # <<>> /\ track_start(next_track[1]) # <<>>
       /\ track_start(next_track[1])[1] > start
    THEN <<track_start(next_track[1])[1] - start>> ELSE <<>>

\* cue_track_info: None without an index 01
cue_track_info(track, next_track, max_index) ==
    IF track_start(track) = <<>> THEN <<>>
    ELSE LET start == track_start(track)[1]
             duration == cue_duration(start, next_track)
         IN <<[start |-> cue_seconds(start),
               duration |-> IF duration = <<>> THEN <<>>
                            ELSE <<cue_seconds(duration[1])>>,
               track |-> track.id, tracks |-> max_index]>>

\* find_cue_info_in_file: the loop over file.tracks
RECURSIVE cue_infos(_, _)
cue_infos(tracks, rest) ==
    IF rest = <<>> THEN <<>>
    ELSE cue_track_info(Head(rest),
                        track_by_index(tracks, Head(rest).id + 1),
                        max_track_index(tracks))
           \o cue_infos(tracks, Tail(rest))

\* find_cue_info(path).unwrap_or_default(): cue is the first file block of
\* the sheet found and parsed for the path, if any
find_cue_info(cue) == IF cue = <<>> THEN <<>> ELSE cue_infos(cue[1], cue[1])

(* ------------------------------ files.rs ------------------------------ *)
NoExt == "<none>"
InputExts == {"flac", "wv"}
Exts == {NoExt, "flac", "FLAC", "txt"}
Stems == {"a", "b"}

\* str::to_lowercase on the extensions of Exts
to_lowercase(ext) == IF ext = "FLAC" THEN "flac" ELSE ext

\* A mutated filter that also skips a file without extension.
ext_rejected_strict(ext, exts) ==
    ext = NoExt \/ to_lowercase(ext) \notin exts

\* find_files: the continue, taken only for a file that has an extension
ext_rejected(ext, exts) ==
    ext # NoExt /\ to_lowercase(ext) \notin exts

\* find_files: Item { filename, basename, index: 0, total: 0, cue }
NewItem(dir, entry, cue) ==
    [filename |-> [dir |-> dir, stem |-> entry.stem, ext |-> entry.ext],
     basename |-> entry.stem, index |-> 0, total |-> 0, cue |-> cue]

\* find_files: what one regular file pushes
file_items(dir, entry, exts) ==
    IF ext_rejected(entry.ext, exts) THEN <<>>
    ELSE LET infos == find_cue_info(entry.cue) IN
           IF infos = <<>> THEN <<NewItem(dir, entry, <<>>)>>
           ELSE [j \in 1..Len(infos) |-> NewItem(dir, entry, <<infos[j]>>)]

\* find_files: the loop over the entries of a directory; a subdirectory is
\* searched by the recursive call, anything else than a file or a
\* directory is passed over
RECURSIVE dir_items(_, _, _)
dir_items(dir, ents, exts) ==
    IF ents = <<>> THEN <<>>
    ELSE LET e == Head(ents) IN
           (IF e.kind = "dir"
            THEN dir_items(Append(dir, e.stem), e.children, exts)
            ELSE IF e.kind = "file" THEN file_items(dir, e, exts)
            ELSE <<>>)
           \o dir_items(dir, Tail(ents), exts)

\* natural_lexical_only_alnum_cmp on the base names of Stems
basename_before(a, b) == a = "a" /\ b = "b"

\* sort_unstable_by: every order of the items that the comparison allows,
\* as sequences of positions in raw; the order of items that compare equal
\* is not specified
RECURSIVE orders_of(_, _)
orders_of(raw, left) ==
    IF left = {} THEN {<<>>}
    ELSE UNION {{<<i>> \o rest : rest \in orders_of(raw, left \ {i})} :
                  i \in {i \in left : \A j \in left :
                           ~basename_before(raw[j].basename, raw[i].basename)}}

SortedOrders(raw) == orders_of(raw, 1..Len(raw))

\* find_files: index and total are set after the sort
numbered(raw, p) ==
    [i \in 1..Len(raw) |->
       [raw[p[i]] EXCEPT !.index = i - 1, !.total = Len(raw)]]

FilesAtRest ==
    /\ entries = <<>>
    /\ items = <<>>

(* ----------------------------- formats.rs ----------------------------- *)
MIN_QUALITY == 1
MAX_QUALITY == 100

\* parse_cli_args: PIC_QUALITY is validated to be in 1..31
PicQualities == 1..31

\* f32 as i8: the fraction is dropped, towards zero. The quotient num / den
\* stands for the f32 product; no value of the option brings it within
\* rounding distance of an integer.
truncated(num, den) ==
    IF num >= 0 THEN num \div den ELSE -((-num) \div den)

\* normalize_pic_quality: (out_min, out_max) of the format
out_min(fmt) == IF fmt = "MP3" THEN 31 ELSE 0
out_max(fmt) == IF fmt = "MP3" THEN 1 ELSE 10

\* normalize_pic_quality: out_min + (quality * out_range / in_range) as i8
normalize_pic_quality(fmt, quality) ==
    out_min(fmt)
      + truncated(quality * (out_max(fmt) - out_min(fmt)),
                  MAX_QUALITY - MIN_QUALITY)

\* pic_quality_args
pic_quality_args(fmt, quality) ==
    IF fmt = "MP3"
    THEN <<[opt |-> "-qmin", val |-> 1],
           [opt |-> "-q:v", val |-> normalize_pic_quality(fmt, quality)]>>
    ELSE <<[opt |-> "-q:v", val |-> normalize_pic_quality(fmt, quality)]>>

\* ffmpeg_conv_pic_args: the scale filter, then the quality options
ffmpeg_conv_pic_args(fmt, quality) ==
    <<[opt |-> "-vf", val |-> "scale"]>> \o pic_quality_args(fmt, quality)

\* No passthrough options, no command line built.
CmdAtRest ==
    /\ ffmpeg_opts = <<>>
    /\ ffmpeg_args = <<>>

PicAtRest ==
    /\ pic_quality = 2
    /\ conv_args = <<>>
    /\ CmdAtRest

PureAtRest == TagsAtRest /\ FilesAtRest /\ PicAtRest

(* ----------------------- the transcoder command ---------------------- *)
\* An argument is its text; an argument made from a value holds the
\* format or kind as text, and the value.
Lit(text) == [text |-> text]
Arg(text, value) == [text |-> text, value |-> value]

DigitChar(d) == <<"0", "1", "2", "3", "4", "5", "6", "7", "8", "9">>[d + 1]

RECURSIVE to_digits(_)
to_digits(n) ==
    IF n < 10 THEN <<DigitChar(n)>>
    ELSE to_digits(n \div 10) \o <<DigitChar(n % 10)>>

\* The options of the picture, as the two arguments each of them is: the
\* filter is a text, a quality is a number written in decimal.
RECURSIVE flat(_)
flat(pairs) ==
    IF pairs = <<>> THEN <<>>
    ELSE <<Lit(Head(pairs).opt),
           IF Head(pairs).opt = "-vf" THEN Lit(Head(pairs).val)
           ELSE Arg("to_string", to_digits(Head(pairs).val))>>
           \o flat(Tail(pairs))

\* add_meta: "-metadata", "name=val" for each of the values
RECURSIVE meta_flat(_)
meta_flat(metas) ==
    IF metas = <<>> THEN <<>>
    ELSE <<Lit("-metadata"), Arg(Head(metas).name, Head(metas).val)>>
           \o meta_flat(Tail(metas))

\* conv_item: str_vec!["-hide_banner", "-nostats", "-loglevel", "warning", "-y"]
Preamble ==
    <<Lit("-hide_banner"), Lit("-nostats"), Lit("-loglevel"), Lit("warning"),
      Lit("-y")>>

\* Format::audio_args
format_audio_args(fmt) ==
    IF fmt = "MP3"
    THEN <<Lit("-b:a"), Lit("320k"), Lit("-write_id3v2"), Lit("1"),
           Lit("-id3v2_version"), Lit("4")>>
    ELSE <<Lit("-b:a"), Lit("320k")>>

\* format!("{:.3}", seconds): the decimal text rounded to the thousandth.
\* A time of whole frames is never half a thousandth, so the rule for
\* ties plays no part.
format_3(sec) ==
    LET thousandths == (2000 * sec.num + sec.den) \div (2 * sec.den)
    IN to_digits(thousandths \div 1000) \o <<".">>
         \o <<DigitChar((thousandths \div 100) % 10),
              DigitChar((thousandths \div 10) % 10),
              DigitChar(thousandths % 10)>>

\* conv_item: -ss:a and -t:a of the item's CueInfo, the times formatted
\* with three decimals
clip_args(cue) ==
    IF cue = <<>> THEN <<>>
    ELSE <<Lit("-ss:a"), Arg("{:.3}", format_3(cue[1].start))>>
           \o (IF cue[1].duration = <<>> THEN <<>>
               ELSE <<Lit("-t:a"), Arg("{:.3}", format_3(cue[1].duration[1]))>>)

\* A mutated start of the command line: the source before the clipping.
input_before_clip(cue, source) ==
    Preamble \o <<Lit("-i"), Arg("input_filename", source)>> \o clip_args(cue)

\* conv_item: the arguments up to the source
input_args(cue, source) ==
    Preamble \o clip_args(cue) \o <<Lit("-i"), Arg("input_filename", source)>>

\* conv_item: the picture options of the piped cover
cover_args(fmt, quality) ==
    <<Lit("-map"), Lit("0:a"), Lit("-map"), Lit("1:v"),
      Lit("-metadata:s:v"), Lit("title=Album cover"),
      Lit("-metadata:s:v"), Lit("comment=Cover (front)")>>
      \o (IF fmt = "MP3" THEN <<Lit("-c:v"), Lit("copy")>>
          ELSE <<Lit("-c:v"), Lit("libtheora")>>
                 \o flat(ffmpeg_conv_pic_args(fmt, quality)))

\* conv_item: the arguments of the transcoder in the three modes; the
\* passthrough options are chained to the end and the output path pushed
conv_item_args(cue, mode, fmt, quality, t, opts, source, output) ==
    LET audio == format_audio_args(fmt) \o meta_flat(metadata_args(t))
        head == input_args(cue, source)
        body == IF mode = "embedded"
                THEN audio \o flat(ffmpeg_conv_pic_args(fmt, quality))
                ELSE IF mode = "piped"
                THEN <<Lit("-i"), Lit("-")>> \o audio \o cover_args(fmt, quality)
                ELSE audio
    IN head \o body \o opts \o <<Arg("output_path", output)>>

(* -------------------------------- Init -------------------------------- *)
InitRun ==
    /\ pc = [i \in Items |-> "idle"]
    /\ meta = [i \in Items |-> FALSE]
    /\ output_path = [i \in Items |-> NoPath]
    /\ pic_file = [i \in Items |-> NoCover]
    /\ output_pic_data = [i \in Items |-> NoValue]
    /\ map = [k \in Keys |-> Absent]
    /\ map_readers = {}
    /\ map_writer = {}
    /\ filenames = [i \in Items |-> Pending]
    /\ errs = <<>>
    /\ valid_filenames = <<>>
    /\ exit = "running"
    /\ probes = [i \in Items |-> 0]
    /\ ffmpegs = [i \in Items |-> 0]
    /\ pic_procs = 0
    /\ made_dir = [i \in Items |-> FALSE]
    /\ outcomes = [i \in Items |-> 0]
    /\ consulted = [i \in Items |-> FALSE]
    /\ blocked = [i \in Items |-> FALSE]
    /\ computes = [k \in Keys |-> 0]
    /\ returned = [k \in Keys |-> {}]
    /\ hits = [k \in Keys |-> 0]

Init ==
    /\ args \in [dry_run : BOOLEAN, overwrite : BOOLEAN,
                 use_embed_pic : BOOLEAN, output_ext_type : Formats]
    /\ env \in [template_ok : BOOLEAN, progs_ok : BOOLEAN, dirs_ok : BOOLEAN]
    /\ phase = "validate_template"
    /\ files \in SUBSET {join(OutputDir, <<"a">>)}
    /\ InitRun
    /\ san_in = <<>>
    /\ san_out = NoPath
    /\ PureAtRest

(* ------------------------------ preflight ----------------------------- *)
\* main: a preflight step either goes on or returns the error
Preflight(here, ok, next) ==
    /\ phase = here
    /\ IF ok
       THEN phase' = next /\ exit' = exit
       ELSE phase' = "aborted" /\ exit' = "Err"
    /\ UNCHANGED <<consulted, configVars, errs, valid_filenames, pc, localVars, files,
                   map, lockVars, filenames, itemGhosts, pic_procs, outcomes,
                   cacheGhosts>>

\* main: validate_template(&args.filename_template)?
ValidateTemplate == Preflight("validate_template", env.template_ok, "find_progs")

\* main: find_progs(&args)?
FindProgs == Preflight("find_progs", env.progs_ok, "find_files")

\* main: find_files(&args.input_dirs, &args.input_exts)?
FindFiles == Preflight("find_files", env.dirs_ok, "run")

(* ------------------------------ conv_item ----------------------------- *)
\* conv_item returns: the result takes the item's place in the collected
\* list and the locals of the call are gone.
Finish(i, result) ==
    /\ filenames' = [filenames EXCEPT ![i] = result]
    /\ outcomes' = [outcomes EXCEPT ![i] = @ + 1]
    /\ pc' = [pc EXCEPT ![i] = "done"]
    /\ meta' = [meta EXCEPT ![i] = FALSE]
    /\ output_path' = [output_path EXCEPT ![i] = NoPath]
    /\ pic_file' = [pic_file EXCEPT ![i] = NoCover]
    /\ output_pic_data' = [output_pic_data EXCEPT ![i] = NoValue]

\* A mutated start condition: tasks are spawned while preflight still runs.
CanStartEarly(i) ==
    /\ phase \in {"validate_template", "find_progs", "find_files", "run"}
    /\ pc[i] = "idle"
    /\ Cardinality(Active) < NumThreads

\* run: the pool takes an item that no task has taken, when a thread is free.
CanStart(i) ==
    /\ phase = "run"
    /\ pc[i] = "idle"
    /\ Cardinality(Active) < NumThreads

\* conv_item up to the output path: the source directory is canonicalized,
\* extract_meta runs the prober, the template is rendered from its tags and
\* the result sanitized. The first two can fail.
Probe(i) ==
    /\ CanStart(i)
    /\ \E step \in {"canonicalize", "extract_meta", "ok"} :
         /\ probes' = [probes EXCEPT
                         ![i] = IF step = "canonicalize" THEN @ ELSE @ + 1]
         /\ IF step = "ok"
            THEN \E has_pic \in BOOLEAN, rendered \in RenderedNames :
                   /\ meta' = [meta EXCEPT ![i] = has_pic]
                   /\ output_path' =
                        [output_path EXCEPT
                           ![i] = join(OutputDir, sanitize_filename(rendered))]
                   /\ pc' = [pc EXCEPT ![i] = "check_exists"]
                   /\ UNCHANGED <<filenames, outcomes, pic_file,
                                  output_pic_data>>
            ELSE Finish(i, Error(IF step = "canonicalize"
                                 THEN "io" ELSE "probe", <<>>))
    /\ UNCHANGED <<consulted, configVars, mainVars, files, map, lockVars, ffmpegs,
                   made_dir, blocked, pic_procs, cacheGhosts>>

\* A mutated check: the existence of the output is never looked at.
never_blocked(i) == FALSE

\* conv_item: !app_args.overwrite && output_path.exists()
output_blocked(i) == ~args.overwrite /\ output_path[i] \in files

\* conv_item: if !app_args.dry_run { create_dir_all(dir_path) }
creates_dir(dry_run) == ~dry_run

\* conv_item: the existence check, create_dir_all (which can fail), and the
\* choice between the embedded picture, a cover file of the source
\* directory, and audio only.
CheckExists(i) ==
    /\ pc[i] = "check_exists"
    /\ blocked' = [blocked EXCEPT
                     ![i] = ~args.overwrite /\ output_path[i] \in files]
    /\ IF output_blocked(i)
       THEN /\ Finish(i, Error("file exists", output_path[i]))
            /\ UNCHANGED made_dir
       ELSE /\ made_dir' = [made_dir EXCEPT ![i] = creates_dir(args.dry_run)]
            /\ \/ /\ creates_dir(args.dry_run)
                  /\ Finish(i, Error("io", <<>>))
               \/ /\ UNCHANGED <<filenames, outcomes, meta, output_path,
                                  output_pic_data>>
                  /\ IF meta[i] /\ args.use_embed_pic
                     THEN /\ pc' = [pc EXCEPT ![i] = "ffmpeg"]
                          /\ UNCHANGED pic_file
                     ELSE \E found \in {NoCover} \cup Keys :
                            /\ pic_file' = [pic_file EXCEPT ![i] = found]
                            /\ pc' = [pc EXCEPT ![i] =
                                        IF found = NoCover
                                        THEN "ffmpeg" ELSE "get"]
    /\ UNCHANGED <<consulted, configVars, mainVars, files, map, lockVars, probes,
                   ffmpegs, pic_procs, cacheGhosts>>

(* --------------------------- ConcurrentMap ---------------------------- *)
\* A mutated lookup that flattens the stored Option: a stored None looks
\* like a missing entry.
get_from_map_flat(m, key) ==
    IF m[key] = PicNone THEN Absent ELSE m[key]

\* get_from_map: the value of the entry of key, Absent when the map has no
\* entry; the read of an entry whose write lock is held (Locked) blocks.
get_from_map(m, key) == m[key]

\* A mutated set that inserts without looking the key up under the write
\* lock.
set_lookup_skipped(m, key) == Absent

\* set: Self::get_from_map(map, key) under the write lock of the map.
set_lookup(m, key) == get_from_map(m, key)

\* conv_pic_if_needed returns to conv_item: None ends the item with an
\* error, a picture goes on to the transcoder.
Return(i, val) ==
    /\ returned' = [returned EXCEPT ![pic_file[i]] = @ \cup {val}]
    /\ IF val = PicNone
       THEN Finish(i, Error("can't convert", pic_file[i]))
       ELSE /\ pc' = [pc EXCEPT ![i] = "ffmpeg"]
            /\ output_pic_data' = [output_pic_data EXCEPT ![i] = val]
            /\ UNCHANGED <<filenames, outcomes, meta, output_path, pic_file>>

\* get: self.0.read()
GetLock(i) ==
    /\ pc[i] = "get"
    /\ map_writer = {}
    /\ consulted' = [consulted EXCEPT ![i] = TRUE]
    /\ map_readers' = map_readers \cup {i}
    /\ pc' = [pc EXCEPT ![i] = "get_from_map"]
    /\ UNCHANGED <<configVars, mainVars, localVars, files, map, map_writer,
                   filenames, itemGhosts, pic_procs, outcomes, cacheGhosts>>

\* get: get_from_map under the read lock, which is released on return; a
\* missing value sends set_if_not_exists on to set.
GetFromMap(i) ==
    /\ pc[i] = "get_from_map"
    /\ map[pic_file[i]] # Locked
    /\ map_readers' = map_readers \ {i}
    /\ LET res == get_from_map(map, pic_file[i]) IN
         IF res = Absent
         THEN /\ pc' = [pc EXCEPT ![i] = "set"]
              /\ UNCHANGED <<localVars, filenames, outcomes, returned, hits>>
         ELSE /\ Return(i, res)
              /\ hits' = [hits EXCEPT ![pic_file[i]] = @ + 1]
    /\ UNCHANGED <<consulted, configVars, mainVars, files, map, map_writer, itemGhosts,
                   pic_procs, computes>>

\* set: self.0.write()
SetLock(i) ==
    /\ pc[i] = "set"
    /\ map_writer = {}
    /\ map_readers = {}
    /\ map_writer' = {i}
    /\ pc' = [pc EXCEPT ![i] = "set_lookup"]
    /\ UNCHANGED <<consulted, configVars, mainVars, localVars, files, map, map_readers,
                   filenames, itemGhosts, pic_procs, outcomes, cacheGhosts>>

\* set: the lookup under the write lock; a value is returned, otherwise a
\* write-locked empty entry is inserted; the write lock of the map is
\* released either way.
SetLookup(i) ==
    /\ pc[i] = "set_lookup"
    /\ map_writer = {i}
    /\ map[pic_file[i]] # Locked
    /\ map_writer' = {}
    /\ LET res == set_lookup(map, pic_file[i]) IN
         IF res = Absent
         THEN /\ map' = [map EXCEPT ![pic_file[i]] = Locked]
              /\ pc' = [pc EXCEPT ![i] = "val_func"]
              /\ UNCHANGED <<localVars, filenames, outcomes, returned, hits>>
         ELSE /\ Return(i, res)
              /\ hits' = [hits EXCEPT ![pic_file[i]] = @ + 1]
              /\ UNCHANGED map
    /\ UNCHANGED <<consulted, configVars, mainVars, files, map_readers, itemGhosts,
                   pic_procs, computes>>

(* ------------------------------ conv_pic ------------------------------ *)
\* conv_pic: Ogg reads the file, MP3 runs the converter unless dry-run.
conv_pic_spawns(fmt, dry_run) == fmt = "MP3" /\ ~dry_run

\* A mutated compute function that never returns.
conv_pic_never_returns(fmt, dry_run) == {}

\* conv_pic: what it can return.
conv_pic_results(fmt, dry_run) ==
    IF fmt = "MP3" /\ dry_run THEN {PicEmpty} ELSE {PicNone} \cup PicBytes

\* set: val_func() with the entry write-locked; the value is stored, the
\* entry unlocked and the value returned.
ValFunc(i) ==
    /\ pc[i] = "val_func"
    /\ computes' = [computes EXCEPT ![pic_file[i]] = @ + 1]
    /\ pic_procs' = IF conv_pic_spawns(args.output_ext_type, args.dry_run)
                    THEN pic_procs + 1 ELSE pic_procs
    /\ \E val \in conv_pic_results(args.output_ext_type, args.dry_run) :
         /\ map' = [map EXCEPT ![pic_file[i]] = val]
         /\ Return(i, val)
    /\ UNCHANGED <<consulted, configVars, mainVars, files, lockVars, itemGhosts, hits>>

(* ------------------------------ transcoder ---------------------------- *)
\* A mutated transcoder step that ignores dry-run.
runs_ffmpeg_always(dry_run) == TRUE

\* conv_item: if app_args.dry_run { output = None } else { Command ... }
runs_ffmpeg(dry_run) == ~dry_run

\* A mutated choice of the command line that forgets the embedding option.
ffmpeg_mode_ignores_option(has_pic, use_embed_pic, pic_data) ==
    IF has_pic THEN "embedded"
    ELSE IF pic_data # NoValue THEN "piped" ELSE "audio"

\* conv_item: the three command lines of the transcoder. With
\* meta.has_pic && use_embed_pic the picture stream of the source is
\* converted; with Some(output_pic_data) the data is a second input, "-i -",
\* written to stdin; otherwise there is the audio alone.
ffmpeg_mode(has_pic, use_embed_pic, pic_data) ==
    IF has_pic /\ use_embed_pic THEN "embedded"
    ELSE IF pic_data # NoValue THEN "piped" ELSE "audio"

\* conv_item: the transcoder and the exit code check. A transcoder that
\* fails may have created the output file or not.
Transcode(i) ==
    /\ pc[i] = "ffmpeg"
    /\ IF runs_ffmpeg(args.dry_run)
       THEN /\ ffmpegs' = [ffmpegs EXCEPT ![i] = @ + 1]
            /\ \E code_ok \in BOOLEAN :
                 IF code_ok
                 THEN /\ files' = files \cup {output_path[i]}
                      /\ Finish(i, Filename(output_path[i]))
                 ELSE /\ files' \in {files, files \cup {output_path[i]}}
                      /\ Finish(i, Error("ffmpeg", <<>>))
       ELSE /\ Finish(i, Filename(output_path[i]))
            /\ UNCHANGED <<ffmpegs, files>>
    /\ UNCHANGED <<consulted, configVars, mainVars, map, lockVars, probes, made_dir,
                   blocked, pic_procs, cacheGhosts>>

(* --------------------------- main: aggregation ------------------------ *)
Min(S) == CHOOSE x \in S : \A y \in S : x <= y

\* main: the items after a whose result is the same filename
same_later(fs, a) ==
    {b \in (a + 1)..Len(fs) : IsFilename(fs[b]) /\ fs[b].path = fs[a].path}

\* main: the inner loop over b in (a + 1)..n, which stops at the first equal
\* filename: the items b for which an error is pushed.
collisions(fs, a) ==
    IF same_later(fs, a) = {} THEN <<>> ELSE <<Min(same_later(fs, a))>>

\* main: what one round of the outer loop pushes to errs
item_errs(fs, a) ==
    IF IsFilename(fs[a])
    THEN [j \in 1..Len(collisions(fs, a)) |->
            [item |-> a, kind |-> "collision", what |-> fs[a].path,
             other |-> collisions(fs, a)[j]]]
    ELSE IF IsError(fs[a])
    THEN <<[item |-> a, kind |-> fs[a].kind, what |-> fs[a].what]>>
    ELSE <<>>

\* A mutated outer loop that forgets the exists flag.
item_valid_always(fs, a) ==
    IF IsFilename(fs[a]) THEN <<fs[a].path>> ELSE <<>>

\* main: what one round of the outer loop pushes to valid_filenames
item_valid(fs, a) ==
    IF IsFilename(fs[a]) /\ collisions(fs, a) = <<>>
    THEN <<fs[a].path>> ELSE <<>>

RECURSIVE loop_errs(_, _)
loop_errs(fs, a) ==
    IF a > Len(fs) THEN <<>> ELSE item_errs(fs, a) \o loop_errs(fs, a + 1)

RECURSIVE loop_valid(_, _)
loop_valid(fs, a) ==
    IF a > Len(fs) THEN <<>> ELSE item_valid(fs, a) \o loop_valid(fs, a + 1)

\* A mutated exit status that does not count collisions.
exit_status_without_collisions(es) ==
    IF \A j \in 1..Len(es) : es[j].kind = "collision" THEN "Ok" ELSE "Err"

\* main: if errs.is_empty() { return Ok(()) } ... Err("Some errors occurred")
exit_status(es) == IF es = <<>> THEN "Ok" ELSE "Err"

\* A mutated collect that stops at the first error.
joined_at_first_error ==
    \/ \A i \in Items : pc[i] = "done"
    \/ \E i \in Items : IsError(filenames[i])

\* run: par_iter().map().collect() returns when every task has returned
joined == \A i \in Items : pc[i] = "done"

\* main after run: the collision loop, the summary and the exit status
Aggregate ==
    /\ phase = "run"
    /\ joined
    /\ errs' = loop_errs(filenames, 1)
    /\ valid_filenames' = loop_valid(filenames, 1)
    /\ exit' = exit_status(errs')
    /\ phase' = "done"
    /\ UNCHANGED <<consulted, configVars, pc, localVars, files, map, lockVars, filenames,
                   itemGhosts, pic_procs, outcomes, cacheGhosts>>

(* --------------------------- specifications --------------------------- *)
Next ==
    \/ ValidateTemplate
    \/ FindProgs
    \/ FindFiles
    \/ \E i \in Items : Probe(i)
    \/ \E i \in Items : CheckExists(i)
    \/ \E i \in Items : GetLock(i)
    \/ \E i \in Items : GetFromMap(i)
    \/ \E i \in Items : SetLock(i)
    \/ \E i \in Items : SetLookup(i)
    \/ \E i \in Items : ValFunc(i)
    \/ \E i \in Items : Transcode(i)
    \/ Aggregate

Spec == Init /\ [][Next]_vars

\* The run on an empty output directory with --overwrite off and a
\* preflight that passes.
InitSched ==
    /\ args \in [dry_run : BOOLEAN, overwrite : {FALSE},
                 use_embed_pic : BOOLEAN, output_ext_type : Formats]
    /\ env = [template_ok |-> TRUE, progs_ok |-> TRUE, dirs_ok |-> TRUE]
    /\ phase = "validate_template"
    /\ files = {}
    /\ InitRun
    /\ san_in = <<>>
    /\ san_out = NoPath
    /\ PureAtRest

SpecSched == InitSched /\ [][Next]_vars

(* ------------------- the cache under concurrent calls ----------------- *)
\* The workers that call conv_pic_if_needed
Callers == 1..NumCallers

\* conv_item: pics.conv_pic_if_needed(&input_pic_filename, ...) for the
\* cover file found, on a worker of the pool
Call(i) ==
    /\ phase = "cache"
    /\ pc[i] = "idle"
    /\ \E key \in Keys : pic_file' = [pic_file EXCEPT ![i] = key]
    /\ pc' = [pc EXCEPT ![i] = "get"]
    /\ UNCHANGED <<consulted, configVars, mainVars, meta, output_path,
                   output_pic_data, files, map, lockVars, filenames,
                   itemGhosts, pic_procs, outcomes, cacheGhosts>>

\* One step of set_if_not_exists for a worker
CacheStep(i) ==
    \/ GetLock(i)
    \/ GetFromMap(i)
    \/ SetLock(i)
    \/ SetLookup(i)
    \/ ValFunc(i)

NextCache ==
    \/ \E i \in Callers : Call(i)
    \/ \E i \in Callers : GetLock(i)
    \/ \E i \in Callers : GetFromMap(i)
    \/ \E i \in Callers : SetLock(i)
    \/ \E i \in Callers : SetLookup(i)
    \/ \E i \in Callers : ValFunc(i)

InitCache ==
    /\ args \in [dry_run : BOOLEAN, overwrite : {FALSE},
                 use_embed_pic : {FALSE}, output_ext_type : Formats]
    /\ env = [template_ok |-> TRUE, progs_ok |-> TRUE, dirs_ok |-> TRUE]
    /\ phase = "cache"
    /\ files = {}
    /\ pc = [i \in Callers |-> "idle"]
    /\ meta = [i \in Callers |-> FALSE]
    /\ output_path = [i \in Callers |-> NoPath]
    /\ pic_file = [i \in Callers |-> NoCover]
    /\ output_pic_data = [i \in Callers |-> NoValue]
    /\ map = [k \in Keys |-> Absent]
    /\ map_readers = {}
    /\ map_writer = {}
    /\ filenames = [i \in Callers |-> Pending]
    /\ errs = <<>>
    /\ valid_filenames = <<>>
    /\ exit = "running"
    /\ probes = [i \in Callers |-> 0]
    /\ ffmpegs = [i \in Callers |-> 0]
    /\ pic_procs = 0
    /\ made_dir = [i \in Callers |-> FALSE]
    /\ outcomes = [i \in Callers |-> 0]
    /\ consulted = [i \in Callers |-> FALSE]
    /\ blocked = [i \in Callers |-> FALSE]
    /\ computes = [k \in Keys |-> 0]
    /\ returned = [k \in Keys |-> {}]
    /\ hits = [k \in Keys |-> 0]
    /\ san_in = <<>>
    /\ san_out = NoPath
    /\ PureAtRest

SpecCache == InitCache /\ [][NextCache]_vars

\* The scheduler lets every worker that can take a step of its call take
\* it; it does not make a worker call.
SpecCacheLive ==
    /\ InitCache
    /\ [][NextCache]_vars
    /\ \A i \in Callers : WF_vars(CacheStep(i))

\* sanitize_filename as a pure function of the rendered filename
Filenames == UNION {[1..n -> Segs] : n \in 0..MaxSegs}

InitSan ==
    /\ args = [dry_run |-> TRUE, overwrite |-> FALSE, use_embed_pic |-> FALSE,
               output_ext_type |-> "MP3"]
    /\ env = [template_ok |-> TRUE, progs_ok |-> TRUE, dirs_ok |-> TRUE]
    /\ phase = "sanitize"
    /\ files = {}
    /\ InitRun
    /\ san_in \in Filenames
    /\ san_out = NoPath
    /\ PureAtRest

\* conv_item: output_path = output_dir.join(sanitize_filename(filename))
Sanitize ==
    /\ phase = "sanitize"
    /\ san_out = NoPath
    /\ san_out' = join(OutputDir, sanitize_filename(san_in))
    /\ UNCHANGED <<consulted, args, env, san_in, mainVars, pc, localVars, files, map,
                   lockVars, filenames, itemGhosts, pic_procs, outcomes,
                   cacheGhosts, pureVars>>

NextSan == Sanitize

SpecSan == InitSan /\ [][NextSan]_vars

(* ------------------------- the tags of conv_item ---------------------- *)
\* Everything of the run but the position: untouched by the pure steps.
runVars == <<args, env, san_in, san_out, pc, localVars, files, map, lockVars,
             filenames, itemGhosts, pic_procs, outcomes, consulted,
             cacheGhosts, errs, valid_filenames, exit>>

RunAtRest ==
    /\ args = [dry_run |-> TRUE, overwrite |-> FALSE, use_embed_pic |-> FALSE,
               output_ext_type |-> "MP3"]
    /\ env = [template_ok |-> TRUE, progs_ok |-> TRUE, dirs_ok |-> TRUE]
    /\ files = {}
    /\ InitRun
    /\ san_in = <<>>
    /\ san_out = NoPath

\* conv_item: let mut tags = fill_fallback_tags(&meta.tags)
FillFallbackTags ==
    /\ phase = "fill_fallback_tags"
    /\ tags' = fill_fallback_tags(meta_tags)
    /\ phase' = "pad"
    /\ UNCHANGED <<runVars, meta_tags, min_track_number_digits, audio_args,
                   probeVars, fileVars, picVars>>

\* conv_item: the padding of tags.tracks and tags.track
PadTrackNumbers ==
    /\ phase = "pad"
    /\ tags' = pad_track(pad_tracks(tags, min_track_number_digits),
                         min_track_number_digits)
    /\ phase' = "add_meta"
    /\ UNCHANGED <<runVars, meta_tags, min_track_number_digits, audio_args,
                   probeVars, fileVars, picVars>>

\* conv_item: the add_meta calls on audio_args
AddMeta ==
    /\ phase = "add_meta"
    /\ audio_args' = metadata_args(metadata_source(meta_tags, tags))
    /\ phase' = "tags_done"
    /\ UNCHANGED <<runVars, meta_tags, min_track_number_digits, tags,
                   probeVars, fileVars, picVars>>

NextTags == FillFallbackTags \/ PadTrackNumbers \/ AddMeta

\* The tag sets of the fallback chain: every field empty or not, a date
\* with and without four leading digits.
OneOf(c) == {<<>>, <<c>>}

FallbackTagSets ==
    [title : OneOf("t"), album : OneOf("l"), artist : OneOf("a"),
     author : OneOf("u"), composer : OneOf("c"), lyricist : OneOf("y"),
     songwriter : OneOf("s"),
     date : {<<>>, <<"2", "0", "0", "1", "-", "0", "5">>, <<"2", "0", "0">>,
             <<"M", "a", "y">>},
     track : {<<>>}, tracks : {<<>>}, performer : OneOf("p"),
     year : {<<>>, <<"1", "9", "9", "9">>}, dir_name : OneOf("d"),
     file_base : OneOf("f"), genre : {<<>>}, disc_id : {<<>>},
     disc : {<<>>}, publisher : {<<>>}]

InitFallback ==
    /\ RunAtRest
    /\ phase = "fill_fallback_tags"
    /\ ProbeAtRest
    /\ meta_tags \in FallbackTagSets
    /\ tags = EmptyTags
    /\ min_track_number_digits = 2
    /\ audio_args = <<>>
    /\ FilesAtRest
    /\ PicAtRest

SpecFallback == InitFallback /\ [][NextTags]_vars

\* The track numbers: every string of up to MaxTrackLen characters of a
\* digit and a two-byte letter, and the numbers of the examples of the
\* option's help.
TrackChars == {"1", "é"}

TrackValues ==
    UNION {[1..n -> TrackChars] : n \in 0..MaxTrackLen}
      \cup {<<"4", "2">>, <<"5", "0">>, <<"1", "3">>, <<"1", "5", "0">>}

InitPad ==
    /\ RunAtRest
    /\ phase = "fill_fallback_tags"
    /\ ProbeAtRest
    /\ \E track \in TrackValues, tracks \in TrackValues :
         meta_tags = [EmptyTags EXCEPT !.track = track, !.tracks = tracks,
                                       !.file_base = <<"f">>]
    /\ tags = EmptyTags
    /\ min_track_number_digits \in 1..MaxMinDigits
    /\ audio_args = <<>>
    /\ FilesAtRest
    /\ PicAtRest

SpecPad == InitPad /\ [][NextTags]_vars

(* ------------------------------ fill_tags ----------------------------- *)
\* hash.keys(): the keys in any order
RECURSIVE KeyOrders(_)
KeyOrders(raw_keys) ==
    IF raw_keys = {} THEN {<<>>}
    ELSE UNION {{<<k>> \o rest : rest \in KeyOrders(raw_keys \ {k})} :
                  k \in raw_keys}

\* extract_meta: let tags = fill_tags(&format_tags, filename, cue)
FillTags ==
    /\ phase = "fill_tags"
    /\ \E raw_keys \in KeyOrders(DOMAIN hash) :
         meta_tags' = fill_tags(raw_keys, hash, item_cue)
    /\ phase' = "fill_tags_done"
    /\ UNCHANGED <<runVars, tags, min_track_number_digits, audio_args,
                   probeVars, fileVars, picVars>>

NextProbe == FillTags

\* The keys of the container that a sheet can override.
ContainerKeys ==
    {<<"a", "l", "b", "u", "m">>,
     <<"t", "i", "t", "l", "e">>,
     <<"s", "o", "n", "g", "w", "r", "i", "t", "e", "r">>,
     <<"g", "e", "n", "r", "e">>,
     <<"p", "e", "r", "f", "o", "r", "m", "e", "r">>,
     <<"a", "r", "t", "i", "s", "t">>,
     <<"d", "a", "t", "e">>,
     <<"d", "i", "s", "c", "i", "d">>,
     <<"t", "r", "a", "c", "k">>,
     <<"t", "r", "a", "c", "k", "t", "o", "t", "a", "l">>}

\* The container's value of a key: the key itself, and for the track also
\* a value of the form n/m.
ContainerValues(raw_key) ==
    IF raw_key = <<"t", "r", "a", "c", "k">>
    THEN {<<"3">>, <<"3", "/", "1", "2">>} ELSE {raw_key}

\* The container tags with up to MaxTagKeys of the keys, all JSON strings.
Containers(raw_keys) ==
    UNION {[ks -> [is_string : {TRUE}, val : UNION {ContainerValues(k) : k \in ks}]] :
             ks \in {ks \in SUBSET raw_keys : Cardinality(ks) <= MaxTagKeys}}

\* A CueInfo without texts: cue_track_info always gives the track and the
\* tracks, as decimal numbers.
BareCue ==
    [album |-> <<>>, title |-> <<>>, performer |-> <<>>, songwriter |-> <<>>,
     genre |-> <<>>, date |-> <<>>, disc_id |-> <<>>, track |-> <<"2">>,
     tracks |-> <<"5">>]

FullCue ==
    [album |-> <<"A">>, title |-> <<"T">>, performer |-> <<"P">>,
     songwriter |-> <<"S">>, genre |-> <<"G">>, date |-> <<"D">>,
     disc_id |-> <<"I">>, track |-> <<"2">>, tracks |-> <<"5">>]

CueTexts == {"album", "title", "performer", "songwriter", "genre", "date",
             "disc_id"}

\* The sheets: no text, one text, every text.
CueOverrides ==
    {BareCue, FullCue} \cup {[BareCue EXCEPT ![f] = FullCue[f]] : f \in CueTexts}

InitOverlay ==
    /\ RunAtRest
    /\ phase = "fill_tags"
    /\ hash \in {h \in Containers(ContainerKeys) :
                   \A k \in DOMAIN h : h[k].val \in ContainerValues(k)}
    /\ item_cue \in {<<>>} \cup {<<c>> : c \in CueOverrides}
    /\ meta_tags = EmptyTags
    /\ tags = EmptyTags
    /\ min_track_number_digits = 2
    /\ audio_args = <<>>
    /\ FilesAtRest
    /\ PicAtRest

SpecOverlay == InitOverlay /\ [][NextProbe]_vars

\* Keys of the container that differ in case and punctuation only.
VariantKeys ==
    {<<"T", "I", "T", "L", "E">>, <<"T", "i", "t", "l", "e">>, <<"t", "i", "t", "l", "e">>, <<"t", "i", "-", "t", "l", "e">>, <<"T", "R", "A", "C", "K">>, <<"t", "r", "a", "c", "k">>}

\* Container tags with up to MaxTagKeys of the variant keys, each with
\* the key as value, a JSON string or not; no sheet.
InitTagKeys ==
    /\ RunAtRest
    /\ phase = "fill_tags"
    /\ \E ks \in {ks \in SUBSET VariantKeys : Cardinality(ks) <= MaxTagKeys} :
         \E strs \in SUBSET ks :
           hash = [k \in ks |-> [is_string |-> k \in strs, val |-> k]]
    /\ item_cue = <<>>
    /\ meta_tags = EmptyTags
    /\ tags = EmptyTags
    /\ min_track_number_digits = 2
    /\ audio_args = <<>>
    /\ FilesAtRest
    /\ PicAtRest

SpecTagKeys == InitTagKeys /\ [][NextProbe]_vars

(* ----------------------------- find_files ----------------------------- *)
InputDir == <<"in">>

\* find_files(&args.input_dirs, &args.input_exts) on an input directory
\* that exists: the walk, the sort and the numbering
Discover ==
    /\ phase = "discover"
    /\ \E p \in SortedOrders(dir_items(InputDir, entries, InputExts)) :
         items' = numbered(dir_items(InputDir, entries, InputExts), p)
    /\ phase' = "discovered"
    /\ UNCHANGED <<runVars, tagVars, picVars, entries>>

NextFiles == Discover

NoChildren == <<>>

FileEntry(stem, ext, cue) ==
    [kind |-> "file", stem |-> stem, ext |-> ext, cue |-> cue,
     children |-> NoChildren]

\* One source file with an accepted extension and any bounded sheet,
\* or none, beside it.
InitCue ==
    /\ RunAtRest
    /\ TagsAtRest
    /\ PicAtRest
    /\ phase = "discover"
    /\ \E cue \in {<<>>} \cup {<<sheet>> : sheet \in CueSheets} :
         entries = <<FileEntry("a", "flac", cue)>>
    /\ items = <<>>

SpecCue == InitCue /\ [][NextFiles]_vars

\* find_files on one regular file: find_cue_info on its path and the items
\* pushed for it, in the order of the tracks, before the sort
ExpandFile ==
    /\ phase = "expand"
    /\ items' = file_items(InputDir, entries[1], InputExts)
    /\ phase' = "expanded"
    /\ UNCHANGED <<runVars, tagVars, picVars, entries>>

NextCueInfo == ExpandFile

\* One source file with an accepted extension and any bounded sheet,
\* or none, beside it.
InitCueInfo ==
    /\ RunAtRest
    /\ TagsAtRest
    /\ PicAtRest
    /\ phase = "expand"
    /\ \E cue \in {<<>>} \cup {<<sheet>> : sheet \in CueSheets} :
         entries = <<FileEntry("a", "flac", cue)>>
    /\ items = <<>>

SpecCueInfo == InitCueInfo /\ [][NextCueInfo]_vars

\* One source file with a sheet of two tracks, the index 01 of each at any
\* frame count up to MaxFrameCount.
InitCueTime ==
    /\ RunAtRest
    /\ TagsAtRest
    /\ PicAtRest
    /\ phase = "discover"
    /\ \E f1, f2 \in 0..MaxFrameCount :
         entries = <<FileEntry("a", "flac",
                               <<(<<[id |-> 1, index1 |-> <<f1>>],
                                    [id |-> 2, index1 |-> <<f2>>]>>)>>)>>
    /\ items = <<>>

SpecCueTime == InitCueTime /\ [][NextFiles]_vars

\* A sheet of two tracks
TwoTracks == <<[id |-> 1, index1 |-> <<0>>], [id |-> 2, index1 |-> <<1>>]>>

\* The entries a directory can have: regular files with and without an
\* accepted extension, with and without a sheet; subdirectories; and
\* entries that are neither (a socket, a dangling link).
DirEntries ==
    {FileEntry(stem, ext, cue) :
       stem \in Stems, ext \in Exts, cue \in {<<>>, <<TwoTracks>>}}
    \cup {[kind |-> "dir", stem |-> "d", ext |-> NoExt, cue |-> <<>>,
           children |-> ch] :
           ch \in {<<>>, <<FileEntry("a", "flac", <<>>)>>,
                   <<FileEntry("a", "txt", <<>>)>>}}
    \cup {[kind |-> "other", stem |-> "a", ext |-> "wv", cue |-> <<>>,
           children |-> NoChildren]}

\* The names of the entries of a directory are distinct.
Listings ==
    {l \in UNION {[1..n -> DirEntries] : n \in 0..MaxEntries} :
       \A i, j \in 1..Len(l) :
         i # j => l[i].stem # l[j].stem \/ l[i].ext # l[j].ext}

InitFiles ==
    /\ RunAtRest
    /\ TagsAtRest
    /\ PicAtRest
    /\ phase = "discover"
    /\ entries \in Listings
    /\ items = <<>>

SpecFiles == InitFiles /\ [][NextFiles]_vars

(* ----------------------- the transcoder command ---------------------- *)
SourceFile == [dir |-> InputDir, stem |-> "a", ext |-> "flac"]

\* The path of a source file, as the segments of its directory, its stem
\* and its extension.
source_path(f) == f.dir \o <<f.stem, f.ext>>

\* conv_item from the probe result to the command line of the transcoder,
\* for the one item of the list: the picture stream the prober reports
\* and the cover data, if any, decide the mode
BuildArgs ==
    /\ phase = "build_args"
    /\ \E has_pic \in BOOLEAN, pic_data \in {NoValue, PicEmpty} \cup PicBytes :
         ffmpeg_args' =
           conv_item_args(items[1].cue,
                          ffmpeg_mode(has_pic, args.use_embed_pic, pic_data),
                          args.output_ext_type, pic_quality, meta_tags,
                          ffmpeg_opts, source_path(items[1].filename),
                          join(OutputDir, <<"a">>))
    /\ phase' = "build_args_done"
    /\ UNCHANGED <<runVars, tagVars, fileVars, pic_quality, conv_args,
                   ffmpeg_opts>>

NextArgs == BuildArgs

\* What the user can pass through: an option that is also a default, its
\* value, and an input option.
OptTokens == {Lit("-b:a"), Lit("128k"), Lit("-i")}

PassedOpts == UNION {[1..n -> OptTokens] : n \in 0..MaxOpts}

\* The item: the source file alone, or one of the two tracks of its sheet.
ItemCues == {<<>>} \cup {<<c>> : c \in {find_cue_info(<<TwoTracks>>)[j] : j \in 1..2}}

TaggedFile ==
    [EmptyTags EXCEPT !.album = <<"l">>, !.title = <<"t">>, !.artist = <<"a">>,
                      !.disc = <<"2">>, !.publisher = <<"p">>,
                      !.track = <<"1">>, !.tracks = <<"9">>]

InitArgs ==
    /\ args \in [dry_run : {FALSE}, overwrite : {FALSE},
                 use_embed_pic : BOOLEAN, output_ext_type : Formats]
    /\ env = [template_ok |-> TRUE, progs_ok |-> TRUE, dirs_ok |-> TRUE]
    /\ files = {}
    /\ InitRun
    /\ san_in = <<>>
    /\ san_out = NoPath
    /\ phase = "build_args"
    /\ ProbeAtRest
    /\ meta_tags \in {EmptyTags, TaggedFile}
    /\ tags = EmptyTags
    /\ min_track_number_digits = 2
    /\ audio_args = <<>>
    /\ entries = <<>>
    /\ \E cue \in ItemCues :
         items = <<[filename |-> SourceFile, basename |-> "a", index |-> 0,
                    total |-> 1, cue |-> cue]>>
    /\ pic_quality = 2
    /\ conv_args = <<>>
    /\ ffmpeg_opts \in PassedOpts
    /\ ffmpeg_args = <<>>

SpecArgs == InitArgs /\ [][NextArgs]_vars

(* ------------------------- ffmpeg_conv_pic_args ----------------------- *)
\* conv_pic, conv_item: ffmpeg_conv_pic_args(app_args)
ConvPicArgs ==
    /\ phase = "conv_pic_args"
    /\ conv_args' = ffmpeg_conv_pic_args(args.output_ext_type, pic_quality)
    /\ phase' = "conv_pic_args_done"
    /\ UNCHANGED <<runVars, tagVars, fileVars, pic_quality, cmdVars>>

NextPicQuality == ConvPicArgs

InitPicQuality ==
    /\ args \in [dry_run : {FALSE}, overwrite : {FALSE},
                 use_embed_pic : {TRUE}, output_ext_type : Formats]
    /\ env = [template_ok |-> TRUE, progs_ok |-> TRUE, dirs_ok |-> TRUE]
    /\ files = {}
    /\ InitRun
    /\ san_in = <<>>
    /\ san_out = NoPath
    /\ TagsAtRest
    /\ FilesAtRest
    /\ phase = "conv_pic_args"
    /\ pic_quality \in PicQualities
    /\ conv_args = <<>>
    /\ CmdAtRest

SpecPicQuality == InitPicQuality /\ [][NextPicQuality]_vars

(* ------------------------------- claims ------------------------------- *)
Max(S) == CHOOSE x \in S : \A y \in S : x >= y

Successes == {i \in Items : IsFilename(filenames[i])}
Group(a) == {b \in Successes : filenames[b].path = filenames[a].path}
ErrsOf(a) == {j \in 1..Len(errs) : errs[j].item = a}
InValid(p) == {j \in 1..Len(valid_filenames) : valid_filenames[j] = p}
CantConvert(k) ==
    {i \in Items : filenames[i] = Error("can't convert", k)}

\* C1: single flight. For every key the compute function runs at most once,
\* and exactly once as soon as any call has returned; every call returns
\* the one stored value; a call that finds the value computed returns it
\* without computing.
C1_SingleFlight ==
    \A k \in Keys :
      /\ computes[k] <= 1
      /\ Cardinality(returned[k]) <= 1
      /\ returned[k] # {} => computes[k] = 1 /\ returned[k] = {map[k]}
      /\ hits[k] > 0 => computes[k] = 1

C1_Witness ==
    \E k \in Keys : computes[k] = 1 /\ hits[k] >= 1

\* C2 as claimed: of the successful items that share an output path the
\* first in item order is kept as converted, and every later one has an
\* error that names an earlier item with that path.
C2_KeepsFirst ==
    phase = "done" =>
      \A a \in Successes :
        IF a = Min(Group(a))
        THEN ErrsOf(a) = {} /\ InValid(filenames[a].path) # {}
        ELSE \E j \in ErrsOf(a) :
               /\ errs[j].kind = "collision"
               /\ errs[j].other \in Group(a)
               /\ errs[j].other < a

\* C2, what main does instead: of the successful items that share an
\* output path the last in item order is kept as converted, and every
\* earlier one has exactly one error, which names the next later item with
\* that path.
C2_CodeKeepsLast ==
    phase = "done" =>
      \A a \in Successes :
        IF a = Max(Group(a))
        THEN ErrsOf(a) = {} /\ InValid(filenames[a].path) # {}
        ELSE /\ Cardinality(ErrsOf(a)) = 1
             /\ \A j \in ErrsOf(a) :
                  /\ errs[j].kind = "collision"
                  /\ errs[j].what = filenames[a].path
                  /\ errs[j].other = Min({b \in Group(a) : b > a})

C2_Witness ==
    /\ phase = "done"
    /\ \E a, b \in Successes : a < b /\ filenames[a].path = filenames[b].path

\* C3: after the collision loop every item is counted once: converted plus
\* errors is the number of items, the converted paths are pairwise
\* distinct, and of k successful items with one path one is converted and
\* k - 1 are collision errors.
C3_Accounting ==
    phase = "done" =>
      /\ Len(valid_filenames) + Len(errs) = NumItems
      /\ \A i \in Items : IsError(filenames[i]) => Cardinality(ErrsOf(i)) = 1
      /\ \A a \in Successes :
           /\ Cardinality(InValid(filenames[a].path)) = 1
           /\ Cardinality({b \in Group(a) : ErrsOf(b) # {}})
                = Cardinality(Group(a)) - 1
      /\ \A j \in 1..Len(valid_filenames) :
           \E a \in Successes : filenames[a].path = valid_filenames[j]

C3_Witness ==
    /\ phase = "done"
    /\ Len(valid_filenames) = 1
    /\ \E j \in 1..Len(errs) : errs[j].kind = "collision"

C5_DryRunNoSubprocess ==
    args.dry_run =>
      /\ pic_procs = 0
      /\ \A i \in Items :
           /\ probes[i] = 0 /\ ffmpegs[i] = 0 /\ ~made_dir[i]
           /\ pc[i] = "done" => IsFilename(filenames[i])

C5_DryRunState ==
    args.dry_run =>
      /\ pic_procs = 0
      /\ \A i \in Items :
           /\ ffmpegs[i] = 0 /\ ~made_dir[i] /\ probes[i] <= 1
           /\ pc[i] \notin {"idle", "done"} => probes[i] = 1
           /\ IsFilename(filenames[i]) => probes[i] = 1
           /\ IsError(filenames[i]) =>
                filenames[i].kind \in
                  {"io", "probe", "file exists", "can't convert"}

C5_DryRunStep ==
    \A i \in Items :
      (args.dry_run /\ pc[i] = "ffmpeg" /\ pc'[i] # "ffmpeg") =>
         filenames'[i] = Filename(output_path[i])

\* C5 amended: in dry-run mode an item runs the prober, once, and no other
\* subprocess (no picture conversion, no transcoder) and creates no
\* directory; it fails only before the transcoder step (source directory
\* not resolved, probe failure, existing output with overwrite off, cover
\* image not readable), and an item that reaches the transcoder step
\* succeeds with its would-be output path.
C5_DryRunOnlyProbes == [](C5_DryRunState) /\ [][C5_DryRunStep]_vars

C5_Witness ==
    /\ args.dry_run
    /\ phase = "done"
    /\ \E i \in Items : IsFilename(filenames[i]) /\ probes[i] = 1 /\ consulted[i]

\* C6: a failed picture conversion is cached: the compute function ran once
\* for the key, every call for the key returned the failure, every item
\* that asked for the image has the "can't convert" error and ran no
\* transcoder.
C6_FailureCached ==
    /\ \A k \in Keys :
         map[k] = PicNone =>
           /\ computes[k] = 1
           /\ returned[k] = {PicNone}
           /\ Cardinality(CantConvert(k)) = 1 + hits[k]
    /\ \A k \in Keys : \A i \in CantConvert(k) :
         map[k] = PicNone /\ ffmpegs[i] = 0 /\ consulted[i]

C6_Witness ==
    \E k \in Keys :
      map[k] = PicNone /\ hits[k] >= 1 /\ Cardinality(CantConvert(k)) >= 2

\* C7: with a fatal preflight condition (template, executables or input
\* directory) the run aborts with an error and no item is ever started,
\* probed, transcoded or written.
C7_PreflightFirst ==
    (~env.template_ok \/ ~env.progs_ok \/ ~env.dirs_ok \/ phase = "aborted") =>
      /\ phase \in {"validate_template", "find_progs", "find_files", "aborted"}
      /\ phase = "aborted" <=> exit = "Err"
      /\ pic_procs = 0
      /\ \A i \in Items :
           /\ pc[i] = "idle" /\ filenames[i] = Pending
           /\ probes[i] = 0 /\ ffmpegs[i] = 0 /\ ~made_dir[i] /\ ~consulted[i]

C7_Witness ==
    /\ phase = "aborted"
    /\ env.template_ok /\ env.progs_ok /\ ~env.dirs_ok

\* C8: an item whose output existed at the check while overwrite was off
\* has the "file exists" error, created no directory, did not ask the cache
\* and ran no transcoder.
C8_ExistsBlocks ==
    \A i \in Items :
      blocked[i] =>
        /\ pc[i] = "done"
        /\ IsError(filenames[i]) /\ filenames[i].kind = "file exists"
        /\ ~made_dir[i] /\ ~consulted[i] /\ ffmpegs[i] = 0

C8_Witness ==
    \E i \in Items : blocked[i] /\ probes[i] = 1 /\ pc[i] = "done"

\* C9: main returns only from preflight or after every item has its
\* result; after the run it returns Ok exactly if the error list is empty,
\* which is exactly if every item succeeded and no two share a path.
C9_ExitStatus ==
    /\ exit # "running" <=> phase \in {"done", "aborted"}
    /\ phase = "done" =>
         /\ \A i \in Items : outcomes[i] = 1
         /\ exit = "Ok" <=> errs = <<>>
         /\ exit = "Ok" <=>
              /\ Successes = Items
              /\ \A a, b \in Items :
                   a # b => filenames[a].path # filenames[b].path

C9_Witness ==
    /\ phase = "done" /\ exit = "Err"
    /\ Successes = Items

C9_WitnessOk ==
    phase = "done" /\ exit = "Ok"

\* C10: whatever ".", ".." and empty segments the rendered filename has,
\* the output path is the output directory followed by the normal segments
\* that are left: no ".." survives and the path is under the directory.
C10_Confined ==
    san_out # NoPath =>
      /\ Len(san_out) >= Len(OutputDir)
      /\ SubSeq(san_out, 1, Len(OutputDir)) = OutputDir
      /\ \A j \in (Len(OutputDir) + 1)..Len(san_out) :
           san_out[j] \notin {"..", ".", "", "/"}

C10_Witness ==
    /\ san_in = <<"..", "..", "a">>
    /\ san_out = OutputDir \o <<"a">>

IsZeroPadded(padded, str) ==
    /\ Len(padded) >= Len(str)
    /\ SubSeq(padded, Len(padded) - Len(str) + 1, Len(padded)) = str
    /\ \A j \in 1..(Len(padded) - Len(str)) : padded[j] = "0"

Larger(a, b) == IF a >= b THEN a ELSE b

TrackArgs == {j \in 1..Len(audio_args) : audio_args[j].name = "track"}

\* C11: the fallback chain is idempotent: applied to its own result it
\* changes nothing, for every tag set; conv_item's tags are that result.
C11_FallbackIdempotent ==
    /\ fill_fallback_tags(fill_fallback_tags(meta_tags))
         = fill_fallback_tags(meta_tags)
    /\ phase = "pad" =>
         tags = fill_fallback_tags(meta_tags) /\ fill_fallback_tags(tags) = tags

C11_Witness ==
    /\ phase = "pad"
    /\ meta_tags.artist = <<>> /\ meta_tags.author = <<>>
    /\ meta_tags.songwriter = <<>> /\ meta_tags.composer = <<>>
    /\ meta_tags.lyricist = <<>> /\ meta_tags.year = <<>>
    /\ tags.artist = <<"p">> /\ tags.author = <<"p">>
    /\ tags.songwriter = <<"p">> /\ tags.composer = <<"p">>
    /\ tags.lyricist = <<"p">>
    /\ tags.year = <<"2", "0", "0", "1">>

\* C12: after the padding a non-empty tracks is the original with zeros on
\* the left up to the minimum width, a non-empty track is the original with
\* zeros on the left up to at least the larger of the length of the padded
\* tracks and the minimum width, nothing is cut and an empty value stays
\* empty; the two examples of the help come out as 042/050 and 013/150.
C12_Padding ==
    phase \in {"add_meta", "tags_done"} =>
      /\ IF meta_tags.tracks = <<>> THEN tags.tracks = <<>>
         ELSE /\ IsZeroPadded(tags.tracks, meta_tags.tracks)
              /\ Len(tags.tracks)
                   = Larger(Len(meta_tags.tracks), min_track_number_digits)
      /\ IF meta_tags.track = <<>> THEN tags.track = <<>>
         ELSE /\ IsZeroPadded(tags.track, meta_tags.track)
              /\ Len(tags.track)
                   >= Larger(Len(tags.tracks), min_track_number_digits)
      /\ ( /\ meta_tags.track = <<"4", "2">>
           /\ meta_tags.tracks = <<"5", "0">>
           /\ min_track_number_digits = 3 )
         => /\ tags.track = <<"0", "4", "2">>
            /\ tags.tracks = <<"0", "5", "0">>
      /\ ( /\ meta_tags.track = <<"1", "3">>
           /\ meta_tags.tracks = <<"1", "5", "0">>
           /\ min_track_number_digits = 1 )
         => /\ tags.track = <<"0", "1", "3">>
            /\ tags.tracks = <<"1", "5", "0">>

C12_Witness ==
    /\ phase = "tags_done"
    /\ meta_tags.track = <<"1", "3">>
    /\ meta_tags.tracks = <<"1", "5", "0">>
    /\ min_track_number_digits = 1
    /\ tags.track = <<"0", "1", "3">>

\* C13: the track written to the output file is the track as probed,
\* followed by "/" and the tracks as probed when both are there, whatever
\* the padding made of the filename-facing tags; without a track there is
\* no track metadata.
C13_MetadataUnpadded ==
    phase = "tags_done" =>
      IF meta_tags.track = <<>> THEN TrackArgs = {}
      ELSE /\ Cardinality(TrackArgs) = 1
           /\ \A j \in TrackArgs :
                audio_args[j].val =
                  IF meta_tags.tracks = <<>> THEN meta_tags.track
                  ELSE meta_tags.track \o <<"/">> \o meta_tags.tracks

C13_Witness ==
    /\ phase = "tags_done"
    /\ tags.track = <<"0", "4", "2">> /\ tags.tracks = <<"0", "5", "0">>
    /\ \E j \in TrackArgs :
         audio_args[j].val = <<"4", "2", "/", "5", "0">>

\* The first file block of the sheet of the one source file of SpecCue
Sheet == entries[1].cue[1]

AllIndexed(sheet) == \A j \in 1..Len(sheet) : sheet[j].index1 # <<>>

\* The ids are distinct and contiguous and the index 01 times grow
\* strictly with the id.
WellFormed(sheet) ==
    /\ \A j, k \in 1..Len(sheet) : j # k => sheet[j].id # sheet[k].id
    /\ \A j \in 1..Len(sheet) :
         \/ sheet[j].id = max_track_index(sheet)
         \/ \E k \in 1..Len(sheet) : sheet[k].id = sheet[j].id + 1
    /\ \A j, k \in 1..Len(sheet) :
         sheet[j].id < sheet[k].id => sheet[j].index1[1] < sheet[k].index1[1]

\* A time in seconds as a number of frames.
InFrames(sec) == (sec.num * CUE_FRAMES_IN_SECOND) \div sec.den

\* The span [start, start + duration) reaches beyond t; without a duration
\* it goes to the end of the file.
EndsAfter(span, t) ==
    \/ span.duration = <<>>
    \/ InFrames(span.start) + InFrames(span.duration[1]) > InFrames(t)

Overlap(x, y) == EndsAfter(x, y.start) /\ EndsAfter(y, x.start)

Expanded(n) ==
    /\ Len(items) = n
    /\ \A i \in 1..Len(items) :
         /\ items[i].filename = [dir |-> InputDir, stem |-> "a", ext |-> "flac"]
         /\ items[i].cue # <<>>
    /\ \A i, j \in 1..Len(items) :
         i # j =>
           /\ <<items[i].cue[1].start, items[i].cue[1].duration>>
                # <<items[j].cue[1].start, items[j].cue[1].duration>>
           /\ ~Overlap(items[i].cue[1], items[j].cue[1])

\* C14 as claimed: a source file whose sheet has N tracks, each with an
\* index 01, becomes N items of that file whose spans are pairwise distinct
\* and do not overlap.
C14_CueExpansion ==
    ( /\ phase = "discovered"
      /\ entries[1].cue # <<>>
      /\ Len(Sheet) >= 1
      /\ AllIndexed(Sheet) )
    => Expanded(Len(Sheet))

\* C14 amended: a source file whose sheet has N >= 1 tracks, each with an
\* index 01, with distinct contiguous ids and index 01 times that grow
\* strictly with the id, becomes N items of that file whose spans are
\* pairwise distinct and do not overlap: each track runs from its index 01
\* to the index 01 of the track with the next id, the last to the end of
\* the file, with the id as track and the largest id as tracks.
C14_WellFormedExpansion ==
    ( /\ phase = "discovered"
      /\ entries[1].cue # <<>>
      /\ Len(Sheet) >= 1
      /\ AllIndexed(Sheet)
      /\ WellFormed(Sheet) )
    => /\ Expanded(Len(Sheet))
       /\ \A j \in 1..Len(Sheet) : \E i \in 1..Len(items) :
            /\ items[i].cue[1].track = Sheet[j].id
            /\ items[i].cue[1].tracks = max_track_index(Sheet)
            /\ InFrames(items[i].cue[1].start) = Sheet[j].index1[1]
            /\ IF Sheet[j].id = max_track_index(Sheet)
               THEN items[i].cue[1].duration = <<>>
               ELSE \E k \in 1..Len(Sheet) :
                      /\ Sheet[k].id = Sheet[j].id + 1
                      /\ items[i].cue[1].duration # <<>>
                      /\ InFrames(items[i].cue[1].duration[1])
                           = Sheet[k].index1[1] - Sheet[j].index1[1]

C14_Witness ==
    /\ phase = "discovered"
    /\ entries[1].cue
         = <<(<<[id |-> 1, index1 |-> <<0>>], [id |-> 2, index1 |-> <<1>>],
               [id |-> 3, index1 |-> <<2>>]>>)>>
    /\ Len(items) = 3
    /\ \E i \in 1..3 :
         items[i].cue = <<[start |-> [num |-> 1, den |-> 75],
                           duration |-> <<[num |-> 1, den |-> 75]>>, track |-> 2,
                           tracks |-> 3]>>

\* C15 as claimed: every item discovery emits is a regular file with an
\* extension that, in lower case, is in the accepted list.
C15_OnlyAcceptedExts ==
    phase = "discovered" =>
      \A i \in 1..Len(items) :
        /\ items[i].filename.ext # NoExt
        /\ to_lowercase(items[i].filename.ext) \in InputExts

\* C15, what find_files does: an item is emitted for every regular file of
\* the tree but those whose extension is outside the list; a file without
\* extension is emitted.
C15_CodeSkipsOnlyOtherExts ==
    phase = "discovered" =>
      /\ \A i \in 1..Len(items) :
           \/ items[i].filename.ext = NoExt
           \/ to_lowercase(items[i].filename.ext) \in InputExts
      /\ \A j \in 1..Len(entries) :
           (entries[j].kind = "file" /\ entries[j].ext = NoExt) =>
             \E i \in 1..Len(items) :
               items[i].filename
                 = [dir |-> InputDir, stem |-> entries[j].stem, ext |-> NoExt]
      /\ \A j \in 1..Len(entries) :
           entries[j].kind = "other" =>
             \A i \in 1..Len(items) :
               items[i].filename.stem # entries[j].stem
                 \/ items[i].filename.ext # entries[j].ext

C15_Witness ==
    /\ phase = "discovered"
    /\ \E i \in 1..Len(items) : items[i].filename.ext = NoExt
    /\ \E i \in 1..Len(items) : items[i].filename.ext = "FLAC"

ModeOf(i) == ffmpeg_mode(meta[i], args.use_embed_pic, output_pic_data[i])

\* C16: an item at the transcoder step has one command line. With an
\* embedded picture and embedding enabled it is the embedded one and the
\* cache was not asked; otherwise, with a cover file found, it is the piped
\* one and the data is the picture the cache holds for the file; otherwise
\* it is audio only, and the cache was not asked.
C16_CoverStrategy ==
    \A i \in Items :
      pc[i] = "ffmpeg" =>
        IF meta[i] /\ args.use_embed_pic
        THEN /\ ModeOf(i) = "embedded"
             /\ ~consulted[i] /\ output_pic_data[i] = NoValue
        ELSE IF pic_file[i] # NoCover
        THEN /\ ModeOf(i) = "piped"
             /\ consulted[i]
             /\ output_pic_data[i] = map[pic_file[i]]
             /\ output_pic_data[i] \in PicBytes \cup {PicEmpty}
        ELSE /\ ModeOf(i) = "audio"
             /\ ~consulted[i] /\ output_pic_data[i] = NoValue

C16_Witness ==
    \E i, j \in Items :
      /\ pc[i] = "ffmpeg" /\ pc[j] = "ffmpeg"
      /\ meta[i] /\ args.use_embed_pic /\ ModeOf(i) = "embedded"
      /\ ~meta[j] /\ ModeOf(j) = "piped" /\ consulted[j]

\* The -q:v value of the options
QV == {conv_args[j].val : j \in {j \in 1..Len(conv_args) :
                                   conv_args[j].opt = "-q:v"}}

\* -q:v a encodes a better picture than -q:v b: the smaller value for the
\* mjpeg encoder of MP3, the larger for the theora encoder of Ogg.
BetterQ(fmt, a, b) == IF fmt = "MP3" THEN a < b ELSE a > b

BestQ(fmt) == out_max(fmt)

\* C17 as claimed: the option runs from 1, the best quality, to 31, the
\* lowest: pic-quality 1 gives the best -q:v of the format, and a larger
\* value of the option never gives a better -q:v.
C17_QualityScale ==
    phase = "conv_pic_args_done" =>
      /\ pic_quality = 1 => QV = {BestQ(args.output_ext_type)}
      /\ \A q \in PicQualities : \A v \in QV :
           q > pic_quality =>
             ~BetterQ(args.output_ext_type,
                      normalize_pic_quality(args.output_ext_type, q), v)

\* C17, what the code does: the option is read on a scale of 1 to 100 where
\* more is better, so 1 gives the lowest -q:v of the format (31 for MP3, 0
\* for Ogg), 31 gives 22 for MP3 and 3 for Ogg, and a larger value of the
\* option never gives a worse -q:v.
C17_CodeScale ==
    phase = "conv_pic_args_done" =>
      /\ Cardinality(QV) = 1
      /\ pic_quality = 1 => QV = {out_min(args.output_ext_type)}
      /\ pic_quality = 31 =>
           QV = {IF args.output_ext_type = "MP3" THEN 22 ELSE 3}
      /\ \A q \in PicQualities : \A v \in QV :
           q > pic_quality =>
             ~BetterQ(args.output_ext_type, v,
                      normalize_pic_quality(args.output_ext_type, q))

C17_Witness ==
    /\ phase = "conv_pic_args_done"
    /\ args.output_ext_type = "MP3"
    /\ pic_quality = 1
    /\ QV = {31}

InCall(i) == pc[i] \in {"get", "get_from_map", "set", "set_lookup", "val_func"}
HasReturned(i) == pc[i] \in {"ffmpeg", "done"}

\* The next step of the call of worker i can be taken.
CanStep(i) ==
    \/ pc[i] = "get" /\ map_writer = {}
    \/ pc[i] = "set" /\ map_writer = {} /\ map_readers = {}
    \/ pc[i] \in {"get_from_map", "set_lookup"} /\ map[pic_file[i]] # Locked
    \/ pc[i] = "val_func"

C18_Step ==
    \A k \in Keys :
      /\ map[k] # Absent => map'[k] # Absent
      /\ (map[k] = Absent /\ map'[k] # Absent) => map'[k] = Locked
      /\ map[k] \notin {Absent, Locked} => map'[k] = map[k]

\* C18: the entries are written once and never removed: an entry that is
\* there stays, a key gets its entry, locked and empty, in one insertion,
\* and an entry with a value never changes.
C18_WriteOnce == [][C18_Step]_vars

C18_Witness ==
    /\ \A k \in Keys : map[k] \notin {Absent, Locked} /\ computes[k] = 1
    /\ \E k \in Keys : hits[k] >= 1 /\ returned[k] # {}

\* C19: whatever the workers and keys, some worker that is in a call can
\* always take a step, and with fair scheduling every call returns.
C19_CacheLiveness ==
    /\ []((\E i \in Callers : InCall(i)) =>
           (\E i \in Callers : InCall(i) /\ CanStep(i)))
    /\ \A i \in Callers : InCall(i) ~> HasReturned(i)

C19_Witness ==
    /\ \A i \in Callers : HasReturned(i)
    /\ \A k \in Keys : computes[k] = 1
    /\ \E k \in Keys : hits[k] >= 1

\* Worker j holds the lock of the map while it waits for the computation
\* of its key to end.
HoldsMapWaiting(j) ==
    /\ pc[j] \in {"get_from_map", "set_lookup"}
    /\ map[pic_file[j]] = Locked

\* C20 as claimed: a call for a key without entry is never held up by the
\* computation of another key: when it cannot take the lock of the map,
\* some holder of the lock is not waiting for a computation.
C20_KeyIndependence ==
    \A i \in Callers :
      ( /\ pc[i] \in {"get", "set"}
        /\ map[pic_file[i]] = Absent
        /\ ~CanStep(i) )
      => \E j \in Callers :
           /\ j \in map_readers \cup map_writer
           /\ ~HoldsMapWaiting(j)

\* C20: the state in which the code holds a call for a key without entry
\* up: the one holder of the lock of the map waits for a computation.
C20_Witness ==
    \E i, j \in Callers :
      /\ pc[i] = "set" /\ map[pic_file[i]] = Absent /\ ~CanStep(i)
      /\ map_readers \cup map_writer = {j}
      /\ HoldsMapWaiting(j)

\* The output path item i resolved to, read from its result.
ResolvedPath(i) ==
    IF IsFilename(filenames[i]) THEN filenames[i].path ELSE filenames[i].what

\* Every tool succeeded for item i: its result is its output path, or the
\* refusal to overwrite it.
ToolsSucceeded(i) ==
    \/ IsFilename(filenames[i])
    \/ IsError(filenames[i]) /\ filenames[i].kind = "file exists"

\* The results of the tasks run one after the other in item order on the
\* output directory on_disk, every tool succeeding.
RECURSIVE sequential_results(_, _, _)
sequential_results(i, on_disk, acc) ==
    IF i > NumItems THEN acc
    ELSE IF ~args.overwrite /\ ResolvedPath(i) \in on_disk
    THEN sequential_results(i + 1, on_disk,
                            Append(acc, Error("file exists", ResolvedPath(i))))
    ELSE sequential_results(i + 1,
                            IF runs_ffmpeg(args.dry_run)
                            THEN on_disk \cup {ResolvedPath(i)} ELSE on_disk,
                            Append(acc, Filename(ResolvedPath(i))))

\* C21 as claimed: with an empty output directory, overwrite disabled and
\* every tool succeeding, the error list and the converted list of main
\* are those of the tasks run one after the other, whatever the
\* interleaving of the tasks.
C21_SchedulingIndependence ==
    (phase = "done" /\ \A i \in Items : ToolsSucceeded(i)) =>
      /\ errs = loop_errs(sequential_results(1, {}, <<>>), 1)
      /\ valid_filenames = loop_valid(sequential_results(1, {}, <<>>), 1)

\* C21: the run in which two tasks pass the existence check before either
\* has written the common output path.
C21_Witness ==
    /\ phase = "done"
    /\ ~args.dry_run
    /\ \E i, j \in Items :
         /\ i < j
         /\ IsFilename(filenames[i]) /\ IsFilename(filenames[j])
         /\ filenames[i].path = filenames[j].path
         /\ ~blocked[i] /\ ~blocked[j]

\* The items of the walk, before the sort.
Discovered == dir_items(InputDir, entries, InputExts)

\* The order p of the discovered items keeps items with equal base names
\* in discovery order.
KeepsDiscoveryOrder(raw, p) ==
    \A i, j \in 1..Len(p) :
      ( /\ i < j
        /\ ~basename_before(raw[p[i]].basename, raw[p[j]].basename)
        /\ ~basename_before(raw[p[j]].basename, raw[p[i]].basename) )
      => p[i] < p[j]

\* C22 as claimed: the item list is the discovered items sorted by base
\* name, items with equal base names in discovery order, numbered in that
\* order.
C22_StableOrder ==
    phase = "discovered" =>
      \E p \in SortedOrders(Discovered) :
        /\ KeepsDiscoveryOrder(Discovered, p)
        /\ items = numbered(Discovered, p)

\* C22, what find_files guarantees: the list is sorted by base name and
\* numbered 0, 1, ... with the shared total; nothing is said of the order
\* of items with equal base names.
C22_CodeSorted ==
    phase = "discovered" =>
      /\ \A i, j \in 1..Len(items) :
           i < j => ~basename_before(items[j].basename, items[i].basename)
      /\ \A i \in 1..Len(items) :
           items[i].index = i - 1 /\ items[i].total = Len(items)

\* C22: the two tracks of one file, the second before the first.
C22_Witness ==
    /\ phase = "discovered"
    /\ \E i, j \in 1..Len(items) :
         /\ i < j
         /\ items[i].filename = items[j].filename
         /\ items[i].cue # <<>> /\ items[j].cue # <<>>
         /\ items[i].cue[1].track > items[j].cue[1].track

\* The first non-empty value of a preference list, empty if there is none.
RECURSIVE FirstNonEmpty(_)
FirstNonEmpty(vals) ==
    IF vals = <<>> THEN <<>>
    ELSE IF Head(vals) # <<>> THEN Head(vals) ELSE FirstNonEmpty(Tail(vals))

\* The reference chain, field by field.
RefArtist(t) == FirstNonEmpty(<<t.artist, t.author, t.performer>>)
RefAuthor(t) == FirstNonEmpty(<<t.author, RefArtist(t)>>)
RefSongwriter(t) ==
    FirstNonEmpty(<<t.songwriter, t.composer, t.lyricist, RefArtist(t)>>)
RefComposer(t) == FirstNonEmpty(<<t.composer, RefSongwriter(t)>>)
RefLyricist(t) == FirstNonEmpty(<<t.lyricist, RefSongwriter(t)>>)
RefTitle(t) == FirstNonEmpty(<<t.title, t.file_base>>)
RefAlbum(t) == FirstNonEmpty(<<t.album, t.dir_name>>)

\* C23: the result of fill_fallback_tags is the reference chain: artist
\* from author, else performer; author from the resulting artist;
\* songwriter from composer, else lyricist, else the resulting artist;
\* composer and lyricist from the resulting songwriter; title from the
\* file base name and album from the directory name.
C23_FallbackChain ==
    phase = "pad" =>
      /\ tags.artist = RefArtist(meta_tags)
      /\ tags.author = RefAuthor(meta_tags)
      /\ tags.songwriter = RefSongwriter(meta_tags)
      /\ tags.composer = RefComposer(meta_tags)
      /\ tags.lyricist = RefLyricist(meta_tags)
      /\ tags.title = RefTitle(meta_tags)
      /\ tags.album = RefAlbum(meta_tags)

C23_Witness ==
    /\ phase = "pad"
    /\ meta_tags.artist = <<>> /\ meta_tags.author = <<"u">>
    /\ meta_tags.performer = <<"p">>
    /\ meta_tags.songwriter = <<>> /\ meta_tags.composer = <<"c">>
    /\ meta_tags.lyricist = <<"y">>
    /\ meta_tags.title = <<>> /\ meta_tags.album = <<>>
    /\ tags.artist = <<"u">> /\ tags.songwriter = <<"c">>
    /\ tags.title = <<"f">> /\ tags.album = <<"d">>

\* C23: the chain where the order of the statements shows: the songwriter
\* comes from the artist that came from the performer.
C23_WitnessOrder ==
    /\ phase = "pad"
    /\ meta_tags.artist = <<>> /\ meta_tags.author = <<>>
    /\ meta_tags.performer = <<"p">>
    /\ meta_tags.songwriter = <<>> /\ meta_tags.composer = <<>>
    /\ meta_tags.lyricist = <<"y">>
    /\ tags.author = <<"p">> /\ tags.songwriter = <<"y">>
    /\ tags.composer = <<"y">>

TagFields == DOMAIN EmptyTags

\* C30: a field that is not empty in the tag set given to
\* fill_fallback_tags has the same value in the result; only empty fields
\* change.
C30_FallbackKeepsData ==
    phase = "pad" =>
      \A f \in TagFields : meta_tags[f] # <<>> => tags[f] = meta_tags[f]

C30_Witness ==
    /\ phase = "pad"
    /\ meta_tags.artist = <<"a">> /\ meta_tags.author = <<"u">>
    /\ meta_tags.performer = <<"p">> /\ meta_tags.album = <<"l">>
    /\ meta_tags.dir_name = <<"d">> /\ meta_tags.songwriter = <<"s">>
    /\ meta_tags.composer = <<>> /\ meta_tags.title = <<>>
    /\ tags.artist = <<"a">> /\ tags.author = <<"u">>
    /\ tags.album = <<"l">> /\ tags.composer = <<"s">>
    /\ tags # meta_tags

\* The positions in the sheet of the tracks that have an index 01.
Indexed == {j \in 1..Len(Sheet) : Sheet[j].index1 # <<>>}

HasSheet == phase = "expanded" /\ entries[1].cue # <<>> /\ Indexed # {}

\* The first track of the sheet whose index is one higher than that of
\* track j, if there is one.
Following(j) ==
    LET later == {k \in 1..Len(Sheet) : Sheet[k].id = Sheet[j].id + 1}
    IN IF later = {} THEN <<>> ELSE <<Sheet[Min(later)]>>

\* The duration in frames that the rule gives track j.
RuleDuration(j) ==
    LET next == Following(j)
    IN IF /\ next # <<>>
          /\ next[1].index1 # <<>>
          /\ next[1].index1[1] > Sheet[j].index1[1]
       THEN <<next[1].index1[1] - Sheet[j].index1[1]>>
       ELSE <<>>

\* Track, start and duration of a span, the times in frames.
Timing(span) ==
    <<span.track, InFrames(span.start),
      IF span.duration = <<>> THEN <<>> ELSE <<InFrames(span.duration[1])>>>>

RuleTiming(j) == <<Sheet[j].id, Sheet[j].index1[1], RuleDuration(j)>>

C25_TrackIsPosition ==
    HasSheet =>
      \A i \in 1..Len(items) :
        /\ items[i].cue[1].tracks = max_track_index(Sheet)
        /\ \E j \in Indexed :
             /\ items[i].cue[1].track = j
             /\ InFrames(items[i].cue[1].start) = Sheet[j].index1[1]

\* C25 amended: the track field of every span is the id of its track, as
\* the sheet numbers it, and the tracks field is the largest id of the file
\* block, not the number of its tracks, also when the ids have gaps or are
\* out of order; there is one span for each track that has an index 01.
C25_TrackIsId ==
    HasSheet =>
      /\ Len(items) = Cardinality(Indexed)
      /\ \A i \in 1..Len(items) :
           items[i].cue[1].tracks = max_track_index(Sheet)
      /\ \A i \in 1..Len(items) : \A j \in 1..Len(Sheet) :
           Sheet[j].id <= items[i].cue[1].tracks
      /\ \A j \in Indexed :
           Cardinality({i \in 1..Len(items) :
                          /\ items[i].cue[1].track = Sheet[j].id
                          /\ InFrames(items[i].cue[1].start) = Sheet[j].index1[1]})
             = Cardinality({k \in Indexed :
                              /\ Sheet[k].id = Sheet[j].id
                              /\ Sheet[k].index1 = Sheet[j].index1})

\* C25: a sheet of the tracks 3 and 1, in this order.
C25_Witness ==
    /\ phase = "expanded"
    /\ entries[1].cue
         = <<(<<[id |-> 3, index1 |-> <<0>>], [id |-> 1, index1 |-> <<1>>]>>)>>
    /\ Len(items) = 2
    /\ \A i \in 1..2 : items[i].cue[1].tracks = 3
    /\ \E i \in 1..2 :
         items[i].cue[1].track = 3 /\ InFrames(items[i].cue[1].start) = 0

\* The time sec, in seconds, is frames / 75, and a whole number of seconds
\* is held exactly.
IsFramesBy75(sec, frames) ==
    /\ sec.den > 0
    /\ sec.num * 75 = frames * sec.den
    /\ frames % 75 = 0 => sec = [num |-> frames \div 75, den |-> 1]

\* C29: the start of a span in seconds is the frame count of the index 01
\* divided by 75 and its duration is the difference of the frame counts
\* divided by 75; 75 frames are exactly 1.0 second and 150 frames 2.0.
C29_FramesToSeconds ==
    phase = "discovered" =>
      \A i \in 1..Len(items) : \E j \in 1..Len(Sheet) :
        /\ items[i].cue[1].track = Sheet[j].id
        /\ IsFramesBy75(items[i].cue[1].start, Sheet[j].index1[1])
        /\ Sheet[j].index1[1] = 75 =>
             items[i].cue[1].start = [num |-> 1, den |-> 1]
        /\ Sheet[j].index1[1] = 150 =>
             items[i].cue[1].start = [num |-> 2, den |-> 1]
        /\ items[i].cue[1].duration # <<>> =>
             IsFramesBy75(items[i].cue[1].duration[1], RuleDuration(j)[1])

C29_Witness ==
    /\ phase = "discovered"
    /\ \E i, k \in 1..Len(items) :
         /\ items[i].cue[1].track = 1
         /\ items[i].cue[1].start = [num |-> 1, den |-> 1]
         /\ items[i].cue[1].duration = <<[num |-> 1, den |-> 1]>>
         /\ items[k].cue[1].track = 2
         /\ items[k].cue[1].start = [num |-> 2, den |-> 1]

\* C26: where a field of the sheet is not empty the resolved tag is that
\* field, whatever the container holds, a track of the form n/m included;
\* the performer of the sheet is both the performer and the artist.
C26_CueOverridesWin ==
    (phase = "fill_tags_done" /\ item_cue # <<>>) =>
      /\ \A f \in DOMAIN item_cue[1] :
           item_cue[1][f] # <<>> => meta_tags[f] = item_cue[1][f]
      /\ item_cue[1].performer # <<>> =>
           meta_tags.artist = item_cue[1].performer

C26_Witness ==
    /\ phase = "fill_tags_done"
    /\ item_cue = <<FullCue>>
    /\ DOMAIN hash = {<<"t", "r", "a", "c", "k">>, <<"t", "r", "a", "c", "k", "t", "o", "t", "a", "l">>, <<"a", "r", "t", "i", "s", "t">>}
    /\ hash[<<"t", "r", "a", "c", "k">>].val = <<"3", "/", "1", "2">>
    /\ meta_tags.track = <<"2">> /\ meta_tags.tracks = <<"5">>
    /\ meta_tags.artist = <<"P">> /\ meta_tags.performer = <<"P">>

\* The keys of the container that hold a JSON string and are stored under
\* the name.
KeysNamed(name) ==
    {k \in DOMAIN hash : hash[k].is_string /\ normalized(k) = name}

\* The first and the last of the keys in the order by lower-cased key,
\* then key.
FirstKey(ks) == CHOOSE k \in ks : \A o \in ks \ {k} : key_less(k, o)
LastKey(ks) == CHOOSE k \in ks : \A o \in ks \ {k} : key_less(o, k)

\* C28 as claimed: of the keys that share a name, the value used is that
\* of the first in the order by lower-cased key, then key.
C28_FirstKeyWins ==
    phase = "fill_tags_done" =>
      /\ KeysNamed(<<"t", "i", "t", "l", "e">>) # {} =>
           meta_tags.title = hash[FirstKey(KeysNamed(<<"t", "i", "t", "l", "e">>))].val
      /\ KeysNamed(<<"t", "r", "a", "c", "k">>) # {} =>
           meta_tags.track = hash[FirstKey(KeysNamed(<<"t", "r", "a", "c", "k">>))].val

\* C28 amended: of the keys that share a name and hold a string, the value
\* used is that of the last in the order by lower-cased key, then key,
\* whatever the order in which the map yields its keys; without such a key
\* the tag is empty.
C28_LastKeyWins ==
    phase = "fill_tags_done" =>
      /\ meta_tags.title =
           IF KeysNamed(<<"t", "i", "t", "l", "e">>) = {} THEN <<>>
           ELSE hash[LastKey(KeysNamed(<<"t", "i", "t", "l", "e">>))].val
      /\ meta_tags.track =
           IF KeysNamed(<<"t", "r", "a", "c", "k">>) = {} THEN <<>>
           ELSE hash[LastKey(KeysNamed(<<"t", "r", "a", "c", "k">>))].val

C28_Witness ==
    /\ phase = "fill_tags_done"
    /\ KeysNamed(<<"t", "i", "t", "l", "e">>) = {<<"t", "i", "-", "t", "l", "e">>, <<"T", "I", "T", "L", "E">>, <<"t", "i", "t", "l", "e">>}
    /\ meta_tags.title = <<"t", "i", "t", "l", "e">>

\* The arguments before the passthrough options and the output path.
OwnArgs == SubSeq(ffmpeg_args, 1, Len(ffmpeg_args) - 1 - Len(ffmpeg_opts))

PlacesOf(arg) == {k \in 1..Len(OwnArgs) : OwnArgs[k] = arg}

\* The option and a time as its value are in the arguments, before
\* place k.
TimeBefore(opt, k) ==
    \E j \in PlacesOf(opt) : j + 1 < k /\ OwnArgs[j + 1].text = "{:.3}"

SourcePlace == Min(PlacesOf(Lit("-i")))

FormatDefaults ==
    IF args.output_ext_type = "MP3"
    THEN {<<"-b:a", "320k">>, <<"-write_id3v2", "1">>, <<"-id3v2_version", "4">>}
    ELSE {<<"-b:a", "320k">>}

\* C27: the arguments start with the preamble; -ss:a is there exactly for
\* an item of a sheet and -t:a exactly for a span with a duration, both
\* with their time and before -i and the source; the defaults of the
\* format and the metadata come after the source and before the
\* passthrough options, which are followed by the output path alone.
C27_ArgumentOrder ==
    phase = "build_args_done" =>
      LET cue == items[1].cue
          n == Len(ffmpeg_args)
      IN /\ n >= 8 + Len(ffmpeg_opts)
         /\ SubSeq(ffmpeg_args, 1, 5)
              = <<Lit("-hide_banner"), Lit("-nostats"), Lit("-loglevel"),
                  Lit("warning"), Lit("-y")>>
         /\ PlacesOf(Lit("-i")) # {}
         /\ OwnArgs[SourcePlace + 1] = Arg("input_filename", <<"in", "a", "flac">>)
         /\ IF cue = <<>> THEN PlacesOf(Lit("-ss:a")) = {}
            ELSE /\ Cardinality(PlacesOf(Lit("-ss:a"))) = 1
                 /\ TimeBefore(Lit("-ss:a"), SourcePlace)
         /\ IF cue = <<>> \/ cue[1].duration = <<>>
            THEN PlacesOf(Lit("-t:a")) = {}
            ELSE /\ Cardinality(PlacesOf(Lit("-t:a"))) = 1
                 /\ TimeBefore(Lit("-t:a"), SourcePlace)
                 /\ Min(PlacesOf(Lit("-ss:a"))) < Min(PlacesOf(Lit("-t:a")))
         /\ \A d \in FormatDefaults :
              \E k \in PlacesOf(Lit(d[1])) :
                k > SourcePlace + 1 /\ OwnArgs[k + 1] = Lit(d[2])
         /\ \A f \in {"album", "title", "artist", "disc", "publisher"} :
              meta_tags[f] # <<>> =>
                \E k \in PlacesOf(Lit("-metadata")) :
                  k > SourcePlace + 1 /\ OwnArgs[k + 1] = Arg(f, meta_tags[f])
         /\ SubSeq(ffmpeg_args, n - Len(ffmpeg_opts), n - 1) = ffmpeg_opts
         /\ ffmpeg_args[n] = Arg("output_path", join(OutputDir, <<"a">>))
         /\ PlacesOf(Arg("output_path", join(OutputDir, <<"a">>))) = {}

\* C27: the command line of a track with a duration, a piped cover, tags
\* and two passthrough options, one of them -i.
C27_Witness ==
    /\ phase = "build_args_done"
    /\ items[1].cue # <<>> /\ items[1].cue[1].duration # <<>>
    /\ meta_tags = TaggedFile
    /\ ffmpeg_opts = <<Lit("-i"), Lit("128k")>>
    /\ PlacesOf(Lit("-")) # {}
    /\ PlacesOf(Lit("-t:a")) = {8}
    /\ args.output_ext_type = "Ogg"

\* C27: the command line of the embedded picture, without a sheet.
C27_WitnessEmbedded ==
    /\ phase = "build_args_done"
    /\ items[1].cue = <<>>
    /\ PlacesOf(Lit("-vf")) # {} /\ PlacesOf(Lit("-map")) = {}
    /\ ffmpeg_opts # <<>>

=============================================================================
